---- MODULE Spec2Model ----
(***************************************************************************)
(* FitnessPr backend (FastAPI + SQLAlchemy): the relational tables, the    *)
(* HTTP endpoints of app/api/v1/endpoints and the service classes of       *)
(* app/services they call.                                                  *)
(*                                                                          *)
(* db     the committed content of the database, one field per table, each *)
(*        table a function from primary key to row                         *)
(* resp   the answer to the latest request                                 *)
(* procs  the requests in flight, for the handlers whose steps interleave  *)
(* locks  the row locks the in-flight transactions hold                    *)
(***************************************************************************)
EXTENDS Integers, FiniteSets, Sequences, TLC

VARIABLES db, resp, procs, locks

vars == <<db, resp, procs, locks>>

(***************************************************************************)
(* Bounds of the model.                                                    *)
(***************************************************************************)
MaxClients == 1

(***************************************************************************)
(* Rows and tables.  NULL (Python None) is 0; primary keys start at 1.     *)
(***************************************************************************)
None == 0

Max(S) == CHOOSE x \in S : \A y \in S : y <= x

\* Integer primary key: the next key is one more than the largest stored.
NextId(t) == IF DOMAIN t = {} THEN 1 ELSE Max(DOMAIN t) + 1

\* db.add(obj); db.commit()
Insert(t, row) == t @@ (NextId(t) :> row)

\* db.delete(obj); db.commit()
Delete(t, id) == [i \in DOMAIN t \ {id} |-> t[i]]

EmptyTable == <<>>

EmptyDb ==
    [users |-> EmptyTable, trainers |-> EmptyTable, clients |-> EmptyTable,
     programs |-> EmptyTable, program_exercises |-> EmptyTable,
     progress |-> EmptyTable, workout_logs |-> EmptyTable,
     goals |-> EmptyTable, payments |-> EmptyTable,
     subscriptions |-> EmptyTable, payment_methods |-> EmptyTable]

\* HTTP status codes of the answers.
OK == 200
BadRequest == 400
Unauthorized == 401
Forbidden == 403
NotFound == 404
Conflict == 409
InternalError == 500

\* What a handler gives back: the status of the answer and the database
\* as committed when the request's session is closed.
Answer(status, d) == [status |-> status, db |-> d]

(***************************************************************************)
(* Accounts.  The seeded accounts are users registered through             *)
(* POST /auth/register and trainer profiles created through                *)
(* POST /trainers/: users 1 and 2 are trainers with a profile, user 3 has  *)
(* the trainer flag and no profile, users 4 and 5 are not trainers.        *)
(***************************************************************************)
User(email, hashed_password, is_active, is_trainer) ==
    [email |-> email, hashed_password |-> hashed_password,
     is_active |-> is_active, is_trainer |-> is_trainer]

Trainer(user_id) == [user_id |-> user_id]

Client(user_id, trainer_id, is_active) ==
    [user_id |-> user_id, trainer_id |-> trainer_id, is_active |-> is_active]

SeedUsers ==
    (1 :> User("t1@x", <<"pw", 1>>, TRUE, TRUE)) @@
    (2 :> User("t2@x", <<"pw", 1>>, TRUE, TRUE)) @@
    (3 :> User("t3@x", <<"pw", 1>>, TRUE, TRUE)) @@
    (4 :> User("c1@x", <<"pw", 1>>, TRUE, FALSE)) @@
    (5 :> User("c2@x", <<"pw", 1>>, TRUE, FALSE))

SeedTrainers == (1 :> Trainer(1)) @@ (2 :> Trainer(2))

SeedAccounts == [EmptyDb EXCEPT !.users = SeedUsers, !.trainers = SeedTrainers]

ClientIds == 1 .. (MaxClients + 1)

\* current_user.trainer: the one-to-one trainer profile of a user.
TrainerOf(d, u) == {t \in DOMAIN d.trainers : d.trainers[t].user_id = u}

\* trainer_id = current_user.trainer.id if current_user.trainer else None
TrainerIdOf(d, u) ==
    IF TrainerOf(d, u) = {} THEN None ELSE CHOOSE t \in TrainerOf(d, u) : TRUE

\* current_user.client: the backref of Client.user.  Client.user is
\* many-to-one, so the backref is the collection of the user's client rows.
ClientsOf(d, u) == {c \in DOMAIN d.clients : d.clients[c].user_id = u}

(***************************************************************************)
(* Client endpoints (app/api/v1/endpoints/clients.py).                     *)
(***************************************************************************)
\* A row that references the deleted client keeps no reference: the ORM
\* sets client_id to NULL in every table related to Client without cascade.
Orphan(t, client_id) ==
    [i \in DOMAIN t |->
        IF t[i].client_id = client_id THEN [t[i] EXCEPT !.client_id = None]
        ELSE t[i]]

ClientService_remove(d, id) ==
    [d EXCEPT !.clients = Delete(@, id),
              !.programs = Orphan(@, id),
              !.progress = Orphan(@, id),
              !.workout_logs = Orphan(@, id),
              !.goals = Orphan(@, id),
              !.payments = Orphan(@, id),
              !.subscriptions = Orphan(@, id),
              !.payment_methods = Orphan(@, id)]

\* ClientUpdate bodies: the fields that are set (exclude_unset).
ClientUpdates == {<<>>} \cup {[is_active |-> b] : b \in BOOLEAN}

ClientService_update(d, id, obj_in) ==
    [d EXCEPT !.clients[id] =
        [f \in DOMAIN @ |-> IF f \in DOMAIN obj_in THEN obj_in[f] ELSE @[f]]]

\* read_client with the client branch's comparison of user_id left out.
read_client_any_account(d, u, client_id) ==
    IF client_id \notin DOMAIN d.clients THEN Answer(NotFound, d)
    ELSE IF d.users[u].is_trainer
         THEN IF d.clients[client_id].trainer_id # TrainerIdOf(d, u)
              THEN Answer(Forbidden, d) ELSE Answer(OK, d)
         ELSE Answer(OK, d)

read_client(d, u, client_id) ==
    IF client_id \notin DOMAIN d.clients THEN Answer(NotFound, d)
    ELSE IF d.users[u].is_trainer
         THEN IF d.clients[client_id].trainer_id # TrainerIdOf(d, u)
              THEN Answer(Forbidden, d) ELSE Answer(OK, d)
         ELSE IF d.clients[client_id].user_id # u
              THEN Answer(Forbidden, d) ELSE Answer(OK, d)

update_client(d, u, client_id, client_in) ==
    IF client_id \notin DOMAIN d.clients THEN Answer(NotFound, d)
    ELSE IF d.users[u].is_trainer
         THEN IF d.clients[client_id].trainer_id # TrainerIdOf(d, u)
              THEN Answer(Forbidden, d)
              ELSE Answer(OK, ClientService_update(d, client_id, client_in))
         ELSE IF d.clients[client_id].user_id # u
              THEN Answer(Forbidden, d)
              ELSE Answer(OK, ClientService_update(d, client_id, client_in))

\* delete_client with the row looked up before the role is checked.
delete_client_lookup_first(d, u, client_id) ==
    IF client_id \notin DOMAIN d.clients THEN Answer(NotFound, d)
    ELSE IF ~d.users[u].is_trainer THEN Answer(Forbidden, d)
    ELSE IF d.clients[client_id].trainer_id # TrainerIdOf(d, u)
         THEN Answer(Forbidden, d)
         ELSE Answer(OK, ClientService_remove(d, client_id))

delete_client(d, u, client_id) ==
    IF ~d.users[u].is_trainer THEN Answer(Forbidden, d)
    ELSE IF client_id \notin DOMAIN d.clients THEN Answer(NotFound, d)
    ELSE IF d.clients[client_id].trainer_id # TrainerIdOf(d, u)
         THEN Answer(Forbidden, d)
         ELSE Answer(OK, ClientService_remove(d, client_id))

\* client_service.create(client_in, trainer_id=trainer_id): the service's
\* create takes a third, required argument user_id, so the call raises
\* TypeError and the request is answered by the general exception handler.
create_client(d, u) ==
    IF ~d.users[u].is_trainer THEN Answer(Forbidden, d)
    ELSE IF TrainerIdOf(d, u) = None THEN Answer(NotFound, d)
    ELSE Answer(InternalError, d)

(***************************************************************************)
(* Requests.                                                               *)
(***************************************************************************)
Request(op, caller, target, a) ==
    /\ db' = a.db
    /\ resp' = [op |-> op, caller |-> caller, target |-> target,
                status |-> a.status]
    /\ UNCHANGED <<procs, locks>>

\* A client row stored directly (a seed script, an administrator): the
\* user is any account without a client row yet (user_id is unique) or
\* none, the trainer any trainer profile.
InsertClient ==
    /\ Cardinality(DOMAIN db.clients) < MaxClients
    /\ NextId(db.clients) \in ClientIds
    /\ \E user_id \in {None} \cup {u \in DOMAIN db.users : ClientsOf(db, u) = {}},
          trainer_id \in DOMAIN db.trainers :
          Request("insert_client", None, NextId(db.clients),
                  Answer(OK, [db EXCEPT !.clients =
                                 Insert(@, Client(user_id, trainer_id, TRUE))]))

ReadClient ==
    \E u \in DOMAIN db.users, client_id \in ClientIds :
        Request("read_client", u, client_id, read_client(db, u, client_id))

UpdateClient ==
    \E u \in DOMAIN db.users, client_id \in ClientIds, client_in \in ClientUpdates :
        Request("update_client", u, client_id,
                update_client(db, u, client_id, client_in))

DeleteClient ==
    \E u \in DOMAIN db.users, client_id \in ClientIds :
        Request("delete_client", u, client_id, delete_client(db, u, client_id))

CreateClient ==
    \E u \in DOMAIN db.users :
        Request("create_client", u, None, create_client(db, u))

NoResp == [op |-> "none", caller |-> None, target |-> None, status |-> None]

Init ==
    /\ db = SeedAccounts
    /\ resp = NoResp
    /\ procs = <<>>
    /\ locks = <<>>

Next ==
    \/ InsertClient
    \/ ReadClient
    \/ UpdateClient
    \/ DeleteClient
    \/ CreateClient

Spec == Init /\ [][Next]_vars

(***************************************************************************)
(* Access to client rows.  The role of a caller is its is_trainer flag.    *)
(***************************************************************************)
IsTrainerCaller(d, u) == d.users[u].is_trainer

OwnsClient(d, u, c) ==
    IsTrainerCaller(d, u) /\ d.clients[c].trainer_id = TrainerIdOf(d, u)

IsOwnAccount(d, u, c) ==
    ~IsTrainerCaller(d, u) /\ d.clients[c].user_id = u

C2_UpdateDeleteErrors ==
    [][LET u == resp'.caller
           c == resp'.target
       IN /\ resp'.op = "update_client" =>
                /\ c \notin DOMAIN db.clients => resp'.status = NotFound
                /\ (c \in DOMAIN db.clients /\ IsTrainerCaller(db, u)
                      /\ db.clients[c].trainer_id # TrainerIdOf(db, u))
                   => resp'.status = Forbidden
                /\ (c \in DOMAIN db.clients /\ ~IsTrainerCaller(db, u)
                      /\ db.clients[c].user_id # u)
                   => resp'.status = Forbidden
          /\ resp'.op = "delete_client" =>
                /\ ~IsTrainerCaller(db, u) => resp'.status = Forbidden
                /\ (IsTrainerCaller(db, u) /\ c \notin DOMAIN db.clients)
                   => resp'.status = NotFound
                /\ (IsTrainerCaller(db, u) /\ c \in DOMAIN db.clients
                      /\ db.clients[c].trainer_id # TrainerIdOf(db, u))
                   => resp'.status = Forbidden
      ]_vars

\* A caller that is not a trainer has asked to delete a client id that no
\* row has, and was answered with Forbidden.
C2_Witness ==
    /\ resp.op = "delete_client"
    /\ ~IsTrainerCaller(db, resp.caller)
    /\ resp.target \notin DOMAIN db.clients
    /\ resp.status = Forbidden

\* C2 as stated: update_client and delete_client answer NotFound to every
\* caller when no client row has the id.
C2_NotFoundForEveryCaller ==
    [][(resp'.op \in {"update_client", "delete_client"}
          /\ resp'.target \notin DOMAIN db.clients)
       => resp'.status = NotFound]_vars

(***************************************************************************)
(* Data scoped to one client: programs, progress entries, workout logs,    *)
(* payments (endpoints programs.py, progress.py, payments.py).             *)
(***************************************************************************)
Program(trainer_id, client_id, is_active) ==
    [trainer_id |-> trainer_id, client_id |-> client_id, is_active |-> is_active]

ProgramExercise(program_id, exercise_id) ==
    [program_id |-> program_id, exercise_id |-> exercise_id]

Progress(client_id, trainer_id) ==
    [client_id |-> client_id, trainer_id |-> trainer_id, notes |-> None]

Goal(client_id, trainer_id) ==
    [client_id |-> client_id, trainer_id |-> trainer_id, is_achieved |-> FALSE]

Subscription(client_id, trainer_id) ==
    [client_id |-> client_id, trainer_id |-> trainer_id, status |-> "active"]

PaymentMethod(client_id, is_default) ==
    [client_id |-> client_id, is_default |-> is_default]

WorkoutLog(client_id, trainer_id) ==
    [client_id |-> client_id, trainer_id |-> trainer_id]

Payment(client_id, trainer_id) ==
    [client_id |-> client_id, trainer_id |-> trainer_id,
     status |-> "pending", stripe_payment_intent_id |-> None]

\* db.add of each element of a list, in order, in one commit.
RECURSIVE InsertAll(_, _)
InsertAll(t, rows) ==
    IF rows = <<>> THEN t ELSE InsertAll(Insert(t, Head(rows)), Tail(rows))

\* ProgramService.create: the program row, then one program_exercises row
\* for each exercise of the body, all in one commit.  The client_id is the
\* body's; no foreign key is enforced (SQLite, the configured engine).
ProgramService_create(d, obj_in, trainer_id) ==
    [d EXCEPT
        !.programs = Insert(@, Program(trainer_id, obj_in.client_id, TRUE)),
        !.program_exercises =
            InsertAll(@, [i \in DOMAIN obj_in.exercises |->
                ProgramExercise(NextId(d.programs), obj_in.exercises[i])])]

ProgramService_update(d, id, obj_in) ==
    [d EXCEPT !.programs[id] =
        [f \in DOMAIN @ |-> IF f \in DOMAIN obj_in THEN obj_in[f] ELSE @[f]]]

ProgressService_create(d, obj_in, trainer_id) ==
    [d EXCEPT !.progress = Insert(@, Progress(obj_in.client_id, trainer_id))]

WorkoutLogService_create(d, obj_in, trainer_id) ==
    [d EXCEPT !.workout_logs = Insert(@, WorkoutLog(obj_in.client_id, trainer_id))]

\* PaymentService.create then update with the intent id "pi_test_<id>".
PaymentService_create(d, obj_in) ==
    [d EXCEPT !.payments =
        Insert(@, [Payment(obj_in.client_id, obj_in.trainer_id)
                     EXCEPT !.stripe_payment_intent_id = NextId(d.payments)])]

create_program(d, u, program_in) ==
    IF ~d.users[u].is_trainer THEN Answer(Forbidden, d)
    ELSE IF TrainerIdOf(d, u) = None THEN Answer(NotFound, d)
    ELSE Answer(OK, ProgramService_create(d, program_in, TrainerIdOf(d, u)))

update_program(d, u, program_id, program_in) ==
    IF ~d.users[u].is_trainer THEN Answer(Forbidden, d)
    ELSE IF program_id \notin DOMAIN d.programs THEN Answer(NotFound, d)
    ELSE IF d.programs[program_id].trainer_id # TrainerIdOf(d, u)
         THEN Answer(Forbidden, d)
         ELSE Answer(OK, ProgramService_update(d, program_id, program_in))

get_client_programs(d, u, client_id) ==
    IF ~d.users[u].is_trainer THEN Answer(Forbidden, d) ELSE Answer(OK, d)

create_progress(d, u, progress_in) ==
    IF ~d.users[u].is_trainer THEN Answer(Forbidden, d)
    ELSE IF TrainerIdOf(d, u) = None THEN Answer(NotFound, d)
    ELSE Answer(OK, ProgressService_create(d, progress_in, TrainerIdOf(d, u)))

\* The client branch reads client.trainer_id and client.id of the backref
\* collection: with a client row linked to the caller that raises
\* AttributeError, answered by the general exception handler.
create_workout_log(d, u, workout_in) ==
    IF d.users[u].is_trainer
    THEN IF TrainerIdOf(d, u) = None THEN Answer(NotFound, d)
         ELSE Answer(OK, WorkoutLogService_create(d, workout_in, TrainerIdOf(d, u)))
    ELSE IF ClientsOf(d, u) = {} THEN Answer(NotFound, d)
         ELSE Answer(InternalError, d)

\* The trainer branch is "pass"; the client branch compares client.id of
\* the backref collection.
get_workout_stats(d, u, client_id) ==
    IF d.users[u].is_trainer THEN Answer(OK, d)
    ELSE IF ClientsOf(d, u) = {} THEN Answer(Forbidden, d)
         ELSE Answer(InternalError, d)

\* hasattr(current_user, 'client') holds for every user, so the role test
\* refuses nobody.
create_payment(d, u, payment_in) ==
    Answer(OK, PaymentService_create(d, payment_in))

(***************************************************************************)
(* SpecScope: two trainers with one client each, and the requests that     *)
(* read or store data of a client.                                         *)
(***************************************************************************)
MaxRows == 2

SeedClients == (1 :> Client(4, 1, TRUE)) @@ (2 :> Client(5, 2, TRUE))

SeedScope == [SeedAccounts EXCEPT !.clients = SeedClients]

ScopedRows(d) ==
    Cardinality(DOMAIN d.programs) + Cardinality(DOMAIN d.progress)
      + Cardinality(DOMAIN d.workout_logs) + Cardinality(DOMAIN d.payments)

ProgramIds == 1 .. MaxRows

CreateProgram ==
    /\ ScopedRows(db) < MaxRows
    /\ \E u \in DOMAIN db.users, client_id \in DOMAIN db.clients :
          Request("create_program", u, client_id,
                  create_program(db, u, [client_id |-> client_id, exercises |-> <<>>]))

UpdateProgram ==
    \E u \in DOMAIN db.users, program_id \in ProgramIds,
       program_in \in {[client_id |-> c] : c \in DOMAIN db.clients}
                        \cup {[is_active |-> FALSE]} :
        Request("update_program", u, program_id,
                update_program(db, u, program_id, program_in))

GetClientPrograms ==
    \E u \in DOMAIN db.users, client_id \in DOMAIN db.clients :
        Request("get_client_programs", u, client_id,
                get_client_programs(db, u, client_id))

CreateProgress ==
    /\ ScopedRows(db) < MaxRows
    /\ \E u \in DOMAIN db.users, client_id \in DOMAIN db.clients :
          Request("create_progress", u, client_id,
                  create_progress(db, u, [client_id |-> client_id]))

CreateWorkoutLog ==
    /\ ScopedRows(db) < MaxRows
    /\ \E u \in DOMAIN db.users, client_id \in DOMAIN db.clients :
          Request("create_workout_log", u, client_id,
                  create_workout_log(db, u, [client_id |-> client_id]))

GetWorkoutStats ==
    \E u \in DOMAIN db.users, client_id \in DOMAIN db.clients :
        Request("get_workout_stats", u, client_id,
                get_workout_stats(db, u, client_id))

CreatePayment ==
    /\ ScopedRows(db) < MaxRows
    /\ \E u \in DOMAIN db.users, client_id \in DOMAIN db.clients,
          trainer_id \in DOMAIN db.trainers :
          Request("create_payment", u, client_id,
                  create_payment(db, u, [client_id |-> client_id,
                                         trainer_id |-> trainer_id]))

InitScope ==
    /\ db = SeedScope
    /\ resp = NoResp
    /\ procs = <<>>
    /\ locks = <<>>

NextScope ==
    \/ CreateProgram
    \/ UpdateProgram
    \/ GetClientPrograms
    \/ CreateProgress
    \/ CreateWorkoutLog
    \/ GetWorkoutStats
    \/ CreatePayment

SpecScope == InitScope /\ [][NextScope]_vars

\* C3: a trainer reads the workout statistics or the programs of a client,
\* or creates a progress entry for a client, only when the client's
\* trainer_id is the caller's trainer id; for any other client the answer
\* is Forbidden.  (SpecScope changes no client row, so db.clients is the
\* table the request saw.)
C3_TrainerScopedToOwnClients ==
    (/\ resp.op \in {"get_workout_stats", "get_client_programs", "create_progress"}
     /\ IsTrainerCaller(db, resp.caller)
     /\ db.clients[resp.target].trainer_id # TrainerIdOf(db, resp.caller))
    => resp.status = Forbidden

\* C5: every program, progress, workout log and payment row that references
\* a client carries the trainer_id of that client.
RowMatchesClient(d, row) ==
    row.client_id \in DOMAIN d.clients
        => row.trainer_id = d.clients[row.client_id].trainer_id

C5_TrainerIdMatchesClient ==
    /\ \A i \in DOMAIN db.programs : RowMatchesClient(db, db.programs[i])
    /\ \A i \in DOMAIN db.progress : RowMatchesClient(db, db.progress[i])
    /\ \A i \in DOMAIN db.workout_logs : RowMatchesClient(db, db.workout_logs[i])
    /\ \A i \in DOMAIN db.payments : RowMatchesClient(db, db.payments[i])

(***************************************************************************)
(* The other mutating endpoints: programs and their exercises, progress    *)
(* entries, goals, subscriptions, payment methods.                         *)
(***************************************************************************)
\* ProgramService.remove: the program's program_exercises rows, then the
\* program.
ProgramService_remove(d, id) ==
    [d EXCEPT !.program_exercises =
                  [i \in {j \in DOMAIN @ : @[j].program_id # id} |-> @[i]],
              !.programs = Delete(@, id)]

ProgramService_add_exercise(d, program_id, exercise_data) ==
    [d EXCEPT !.program_exercises =
        Insert(@, ProgramExercise(program_id, exercise_data.exercise_id))]

\* The rows the query of ProgramService.remove_exercise matches.
MatchingExercises(d, program_id, exercise_id) ==
    {i \in DOMAIN d.program_exercises :
        /\ d.program_exercises[i].program_id = program_id
        /\ d.program_exercises[i].exercise_id = exercise_id}

Min(S) == CHOOSE x \in S : \A y \in S : x <= y

\* remove_exercise that matches on the exercise alone.
ProgramService_remove_exercise_any_program(d, program_id, exercise_id) ==
    LET match == {i \in DOMAIN d.program_exercises :
                     d.program_exercises[i].exercise_id = exercise_id}
    IN IF match = {} THEN [success |-> FALSE, db |-> d]
       ELSE [success |-> TRUE,
             db |-> [d EXCEPT !.program_exercises = Delete(@, Min(match))]]

\* ProgramService.remove_exercise: .first() of the matching rows is
\* deleted (the row with the least key, the order the engine scans in).
ProgramService_remove_exercise(d, program_id, exercise_id) ==
    IF MatchingExercises(d, program_id, exercise_id) = {}
    THEN [success |-> FALSE, db |-> d]
    ELSE [success |-> TRUE,
          db |-> [d EXCEPT !.program_exercises =
                     Delete(@, Min(MatchingExercises(d, program_id, exercise_id)))]]

delete_program(d, u, program_id) ==
    IF ~d.users[u].is_trainer THEN Answer(Forbidden, d)
    ELSE IF program_id \notin DOMAIN d.programs THEN Answer(NotFound, d)
    ELSE IF d.programs[program_id].trainer_id # TrainerIdOf(d, u)
         THEN Answer(Forbidden, d)
         ELSE Answer(OK, ProgramService_remove(d, program_id))

add_exercise_to_program(d, u, program_id, exercise_data) ==
    IF ~d.users[u].is_trainer THEN Answer(Forbidden, d)
    ELSE IF program_id \notin DOMAIN d.programs THEN Answer(NotFound, d)
    ELSE IF d.programs[program_id].trainer_id # TrainerIdOf(d, u)
         THEN Answer(Forbidden, d)
         ELSE Answer(OK, ProgramService_add_exercise(d, program_id, exercise_data))

\* remove_exercise_from_program with the exercise removed before the
\* program's trainer is compared with the caller's.
remove_exercise_unchecked(d, u, program_id, exercise_id) ==
    IF ~d.users[u].is_trainer THEN Answer(Forbidden, d)
    ELSE IF program_id \notin DOMAIN d.programs THEN Answer(NotFound, d)
    ELSE LET r == ProgramService_remove_exercise(d, program_id, exercise_id)
         IN IF d.programs[program_id].trainer_id # TrainerIdOf(d, u)
            THEN Answer(Forbidden, r.db)
            ELSE IF ~r.success THEN Answer(NotFound, r.db) ELSE Answer(OK, r.db)

remove_exercise_from_program(d, u, program_id, exercise_id) ==
    IF ~d.users[u].is_trainer THEN Answer(Forbidden, d)
    ELSE IF program_id \notin DOMAIN d.programs THEN Answer(NotFound, d)
    ELSE IF d.programs[program_id].trainer_id # TrainerIdOf(d, u)
         THEN Answer(Forbidden, d)
         ELSE LET r == ProgramService_remove_exercise(d, program_id, exercise_id)
              IN IF ~r.success THEN Answer(NotFound, r.db) ELSE Answer(OK, r.db)

ProgressService_update(d, id, obj_in) ==
    [d EXCEPT !.progress[id] =
        [f \in DOMAIN @ |-> IF f \in DOMAIN obj_in THEN obj_in[f] ELSE @[f]]]

ProgressService_remove(d, id) == [d EXCEPT !.progress = Delete(@, id)]

update_progress(d, u, progress_id, progress_in) ==
    IF ~d.users[u].is_trainer THEN Answer(Forbidden, d)
    ELSE IF progress_id \notin DOMAIN d.progress THEN Answer(NotFound, d)
    ELSE IF d.progress[progress_id].trainer_id # TrainerIdOf(d, u)
         THEN Answer(Forbidden, d)
         ELSE Answer(OK, ProgressService_update(d, progress_id, progress_in))

delete_progress(d, u, progress_id) ==
    IF ~d.users[u].is_trainer THEN Answer(Forbidden, d)
    ELSE IF progress_id \notin DOMAIN d.progress THEN Answer(NotFound, d)
    ELSE IF d.progress[progress_id].trainer_id # TrainerIdOf(d, u)
         THEN Answer(Forbidden, d)
         ELSE Answer(OK, ProgressService_remove(d, progress_id))

GoalService_create(d, obj_in, trainer_id) ==
    [d EXCEPT !.goals = Insert(@, Goal(obj_in.client_id, trainer_id))]

GoalService_mark_goal_achieved(d, goal_id) ==
    IF goal_id \in DOMAIN d.goals
    THEN [d EXCEPT !.goals[goal_id].is_achieved = TRUE]
    ELSE d

create_goal(d, u, goal_in) ==
    IF ~d.users[u].is_trainer THEN Answer(Forbidden, d)
    ELSE IF TrainerIdOf(d, u) = None THEN Answer(NotFound, d)
    ELSE Answer(OK, GoalService_create(d, goal_in, TrainerIdOf(d, u)))

\* The client branch, "if not client or goal.client_id != client.id", reads
\* .id of the backref collection: no client row answers Forbidden, a client
\* row raises AttributeError.
mark_goal_achieved(d, u, goal_id) ==
    IF goal_id \notin DOMAIN d.goals THEN Answer(NotFound, d)
    ELSE IF d.users[u].is_trainer
         THEN IF d.goals[goal_id].trainer_id # TrainerIdOf(d, u)
              THEN Answer(Forbidden, d)
              ELSE Answer(OK, GoalService_mark_goal_achieved(d, goal_id))
         ELSE IF ClientsOf(d, u) = {} THEN Answer(Forbidden, d)
              ELSE Answer(InternalError, d)

SubscriptionService_cancel_subscription(d, subscription_id) ==
    IF subscription_id \in DOMAIN d.subscriptions
    THEN [d EXCEPT !.subscriptions[subscription_id].status = "cancelled"]
    ELSE d

\* SubscriptionService.create builds Subscription(**obj_in.dict()); the body
\* has the key trial_days, which is no column, so the constructor raises
\* TypeError.
create_subscription(d, u, subscription_in) ==
    IF ~d.users[u].is_trainer THEN Answer(Forbidden, d)
    ELSE Answer(InternalError, d)

cancel_subscription(d, u, subscription_id) ==
    IF subscription_id \notin DOMAIN d.subscriptions THEN Answer(NotFound, d)
    ELSE IF d.users[u].is_trainer
         THEN IF d.subscriptions[subscription_id].trainer_id # TrainerIdOf(d, u)
              THEN Answer(Forbidden, d)
              ELSE Answer(OK, SubscriptionService_cancel_subscription(d, subscription_id))
         ELSE IF ClientsOf(d, u) = {} THEN Answer(Forbidden, d)
              ELSE Answer(InternalError, d)

\* A placeholder: nothing is stored.
create_payment_method(d, u) ==
    IF d.users[u].is_trainer THEN Answer(Forbidden, d)
    ELSE IF ClientsOf(d, u) = {} THEN Answer(NotFound, d)
    ELSE Answer(OK, d)

(***************************************************************************)
(* Sessions (app/core/database.py).  A request works in one session of     *)
(* its own: committed is the database as stored, pending the database as   *)
(* the session has it, its uncommitted writes included.                    *)
(***************************************************************************)
Session(d) == [committed |-> d, pending |-> d]

\* db.commit()
Session_commit(s) == [committed |-> s.pending, pending |-> s.pending]

\* get_db: "finally: db.close()" rolls back what was not committed.
Session_close(s) == s.committed

\* UPDATE payment_methods SET is_default = false
\*   WHERE client_id = :client_id AND id != :payment_method_id
ClearOtherDefaults(t, payment_method_id, client_id) ==
    [i \in DOMAIN t |->
        IF t[i].client_id = client_id /\ i # payment_method_id
        THEN [t[i] EXCEPT !.is_default = FALSE]
        ELSE t[i]]

\* set_default_payment_method with a commit after the first statement.
set_default_commit_after_clear(s, payment_method_id, client_id) ==
    LET cleared == Session_commit([s EXCEPT !.pending.payment_methods =
                      ClearOtherDefaults(@, payment_method_id, client_id)])
    IN IF payment_method_id \in DOMAIN cleared.pending.payment_methods
       THEN [ret |-> payment_method_id,
             session |-> Session_commit(
                 [cleared EXCEPT
                    !.pending.payment_methods[payment_method_id].is_default = TRUE])]
       ELSE [ret |-> None, session |-> cleared]

\* PaymentMethodService.set_default_payment_method: the other methods of
\* client_id are cleared, then the method with the id is fetched, whoever
\* its client is, and if there is one it is set and the session committed.
PaymentMethodService_set_default_payment_method(s, payment_method_id, client_id) ==
    LET cleared == [s EXCEPT !.pending.payment_methods =
                      ClearOtherDefaults(@, payment_method_id, client_id)]
    IN IF payment_method_id \in DOMAIN cleared.pending.payment_methods
       THEN [ret |-> payment_method_id,
             session |-> Session_commit(
                 [cleared EXCEPT
                    !.pending.payment_methods[payment_method_id].is_default = TRUE])]
       ELSE [ret |-> None, session |-> cleared]

\* The endpoint from the service call on (payments.py 248-254), for the
\* client id it passes: None is answered with NotFound.
set_default_for_client(d, client_id, payment_method_id) ==
    LET r == PaymentMethodService_set_default_payment_method(
                 Session(d), payment_method_id, client_id)
    IN Answer(IF r.ret = None THEN NotFound ELSE OK, Session_close(r.session))

\* PUT /payments/payment-methods/{id}/default.  client is the backref
\* collection: empty, it is falsy; with the caller's client row in it,
\* client.id raises AttributeError before the service is called.
set_default_payment_method(d, u, payment_method_id) ==
    IF d.users[u].is_trainer THEN Answer(Forbidden, d)
    ELSE IF ClientsOf(d, u) = {} THEN Answer(NotFound, d)
    ELSE Answer(InternalError, d)

(***************************************************************************)
(* SpecFrame: every mutating endpoint, from a database that holds a row    *)
(* of every kind, for a bounded number of requests.                        *)
(***************************************************************************)
MaxRequests == 2

SeedFrame ==
    [SeedScope EXCEPT
        !.programs = (1 :> Program(1, 1, TRUE)),
        !.program_exercises = (1 :> ProgramExercise(1, 1)),
        !.progress = (1 :> Progress(1, 1)),
        !.goals = (1 :> Goal(1, 1)),
        !.subscriptions = (1 :> Subscription(1, 1)),
        !.payment_methods = (1 :> PaymentMethod(1, TRUE)) @@
                            (2 :> PaymentMethod(1, FALSE)) @@
                            (3 :> PaymentMethod(2, TRUE))]

\* Ids asked for: of the seeded row, and one that no row has at first.
RowIds == {1, 2}

SeedClientIds == {1, 2, 3}

ExerciseIds == {1, 2}

PaymentMethodIds == 1 .. 4

FrameRequest(op, a) ==
    /\ resp.n < MaxRequests
    /\ db' = a.db
    /\ resp' = [op |-> op, caller |-> None, target |-> None,
                status |-> a.status, n |-> resp.n + 1]
    /\ UNCHANGED <<procs, locks>>

FCreateClient ==
    \E u \in DOMAIN db.users : FrameRequest("create_client", create_client(db, u))

FUpdateClient ==
    \E u \in DOMAIN db.users, id \in SeedClientIds, client_in \in ClientUpdates :
        FrameRequest("update_client", update_client(db, u, id, client_in))

FDeleteClient ==
    \E u \in DOMAIN db.users, id \in SeedClientIds :
        FrameRequest("delete_client", delete_client(db, u, id))

FCreateProgram ==
    \E u \in DOMAIN db.users, c \in DOMAIN db.clients, ex \in {<<>>, <<1>>} :
        FrameRequest("create_program",
                     create_program(db, u, [client_id |-> c, exercises |-> ex]))

FUpdateProgram ==
    \E u \in DOMAIN db.users, id \in RowIds :
        FrameRequest("update_program",
                     update_program(db, u, id, [is_active |-> FALSE]))

FDeleteProgram ==
    \E u \in DOMAIN db.users, id \in RowIds :
        FrameRequest("delete_program", delete_program(db, u, id))

FAddExercise ==
    \E u \in DOMAIN db.users, id \in RowIds, e \in ExerciseIds :
        FrameRequest("add_exercise_to_program",
                     add_exercise_to_program(db, u, id, [exercise_id |-> e]))

FRemoveExercise ==
    \E u \in DOMAIN db.users, id \in RowIds, e \in ExerciseIds :
        FrameRequest("remove_exercise_from_program",
                     remove_exercise_from_program(db, u, id, e))

FCreateProgress ==
    \E u \in DOMAIN db.users, c \in DOMAIN db.clients :
        FrameRequest("create_progress", create_progress(db, u, [client_id |-> c]))

FUpdateProgress ==
    \E u \in DOMAIN db.users, id \in RowIds :
        FrameRequest("update_progress", update_progress(db, u, id, [notes |-> 1]))

FDeleteProgress ==
    \E u \in DOMAIN db.users, id \in RowIds :
        FrameRequest("delete_progress", delete_progress(db, u, id))

FCreateWorkoutLog ==
    \E u \in DOMAIN db.users, c \in DOMAIN db.clients :
        FrameRequest("create_workout_log",
                     create_workout_log(db, u, [client_id |-> c]))

FCreateGoal ==
    \E u \in DOMAIN db.users, c \in DOMAIN db.clients :
        FrameRequest("create_goal", create_goal(db, u, [client_id |-> c]))

FMarkGoalAchieved ==
    \E u \in DOMAIN db.users, id \in RowIds :
        FrameRequest("mark_goal_achieved", mark_goal_achieved(db, u, id))

FCreateSubscription ==
    \E u \in DOMAIN db.users, c \in DOMAIN db.clients, t \in DOMAIN db.trainers :
        FrameRequest("create_subscription",
                     create_subscription(db, u, [client_id |-> c, trainer_id |-> t]))

FCancelSubscription ==
    \E u \in DOMAIN db.users, id \in RowIds :
        FrameRequest("cancel_subscription", cancel_subscription(db, u, id))

FCreatePaymentMethod ==
    \E u \in DOMAIN db.users :
        FrameRequest("create_payment_method", create_payment_method(db, u))

FSetDefaultPaymentMethod ==
    \E u \in DOMAIN db.users, id \in PaymentMethodIds :
        FrameRequest("set_default_payment_method",
                     set_default_payment_method(db, u, id))

FSetDefaultForClient ==
    \E c \in DOMAIN db.clients, id \in PaymentMethodIds :
        FrameRequest("set_default_for_client", set_default_for_client(db, c, id))

InitFrame ==
    /\ db = SeedFrame
    /\ resp = [NoResp EXCEPT !.op = "none"] @@ [n |-> 0]
    /\ procs = <<>>
    /\ locks = <<>>

NextFrame ==
    \/ FCreateClient
    \/ FUpdateClient
    \/ FDeleteClient
    \/ FCreateProgram
    \/ FUpdateProgram
    \/ FDeleteProgram
    \/ FAddExercise
    \/ FRemoveExercise
    \/ FCreateProgress
    \/ FUpdateProgress
    \/ FDeleteProgress
    \/ FCreateWorkoutLog
    \/ FCreateGoal
    \/ FMarkGoalAchieved
    \/ FCreateSubscription
    \/ FCancelSubscription
    \/ FCreatePaymentMethod
    \/ FSetDefaultPaymentMethod
    \/ FSetDefaultForClient

SpecFrame == InitFrame /\ [][NextFrame]_vars

\* C4: a request to a mutating endpoint that is answered with Forbidden or
\* NotFound leaves every stored row as it was before the request.
C4_RefusedRequestsStoreNothing ==
    [][resp'.status \in {Forbidden, NotFound} => db' = db]_vars

\* The service was asked to make a method that no row has the default of a
\* client with a default: the answer is NotFound and the methods cleared in
\* the session are still the defaults in the database.
C4_Witness ==
    /\ resp.op = "set_default_for_client"
    /\ resp.status = NotFound
    /\ db.payment_methods[1].is_default
    /\ db.payment_methods[3].is_default

(***************************************************************************)
(* SpecPay: payment methods of two clients and requests to make one the    *)
(* default, one request after the other.  resp.last is the history of the  *)
(* requests: for each client id, the target of the latest call for that    *)
(* client that succeeded.                                                  *)
(***************************************************************************)
MaxMethods == 3

MethodIds == 1 .. (MaxMethods + 1)

\* A payment method stored directly (the endpoint that adds one is a
\* placeholder): is_default takes the column's default.
InsertPaymentMethod ==
    /\ Cardinality(DOMAIN db.payment_methods) < MaxMethods
    /\ \E c \in DOMAIN db.clients :
          /\ db' = [db EXCEPT !.payment_methods = Insert(@, PaymentMethod(c, FALSE))]
          /\ resp' = [resp EXCEPT !.op = "insert_payment_method", !.caller = c,
                                  !.target = NextId(db.payment_methods),
                                  !.status = OK]
    /\ UNCHANGED <<procs, locks>>

PSetDefaultForClient ==
    \E c \in DOMAIN db.clients, id \in MethodIds :
        LET a == set_default_for_client(db, c, id)
        IN /\ db' = a.db
           /\ resp' = [op |-> "set_default_for_client", caller |-> c,
                       target |-> id, status |-> a.status,
                       last |-> IF a.status = OK
                                THEN [resp.last EXCEPT ![c] = id]
                                ELSE resp.last]
           /\ UNCHANGED <<procs, locks>>

PSetDefaultPaymentMethod ==
    \E u \in DOMAIN db.users, id \in MethodIds :
        LET a == set_default_payment_method(db, u, id)
        IN /\ db' = a.db
           /\ resp' = [resp EXCEPT !.op = "set_default_payment_method",
                                   !.caller = u, !.target = id,
                                   !.status = a.status]
           /\ UNCHANGED <<procs, locks>>

InitPay ==
    /\ db = SeedScope
    /\ resp = NoResp @@ [last |-> [c \in DOMAIN SeedClients |-> None]]
    /\ procs = <<>>
    /\ locks = <<>>

NextPay ==
    \/ InsertPaymentMethod
    \/ PSetDefaultForClient
    \/ PSetDefaultPaymentMethod

SpecPay == InitPay /\ [][NextPay]_vars

DefaultsOf(d, c) ==
    {m \in DOMAIN d.payment_methods :
        d.payment_methods[m].client_id = c /\ d.payment_methods[m].is_default}

\* C6: after any sequence of successful requests, each client that has
\* made one has exactly one default payment method, the target of its
\* latest request.
C6_ExactlyOneDefault ==
    \A c \in DOMAIN resp.last :
        resp.last[c] # None => DefaultsOf(db, c) = {resp.last[c]}

(***************************************************************************)
(* SpecPayConc: two calls of                                               *)
(* PaymentMethodService.set_default_payment_method for the same client,    *)
(* each in the session of its own request, their statements interleaved.   *)
(* A session is one transaction (autocommit=False): its writes are in      *)
(* procs[p].writes until it commits, a row it has written is locked until  *)
(* it commits or rolls back, and it reads committed rows and its own       *)
(* writes.  A statement that waits for a lock may be ended by the engine   *)
(* with an error (deadlock victim, lock timeout, "database is locked").    *)
(***************************************************************************)
Procs == {1, 2}

Other(p) == CHOOSE q \in Procs : q # p

World == [db |-> db, procs |-> procs, locks |-> locks]

Idle ==
    [pc |-> "idle", target |-> None, client_id |-> None, todo |-> {},
     writes |-> <<>>, status |-> None, overlapped |-> FALSE]

\* The lock of row m is free for p.
CanLock(w, p, m) == w.locks[m] \in {None, p}

ReleaseLocks(lk, p) == [m \in DOMAIN lk |-> IF lk[m] = p THEN None ELSE lk[m]]

\* COMMIT: the writes of p reach the table, its locks are released.
tx_commit(w, p) ==
    [w EXCEPT
        !.db.payment_methods =
            [m \in DOMAIN @ |->
                IF m \in DOMAIN w.procs[p].writes
                THEN [@[m] EXCEPT !.is_default = w.procs[p].writes[m]]
                ELSE @[m]],
        !.locks = ReleaseLocks(@, p),
        !.procs[p].writes = <<>>]

\* ROLLBACK (db.close() of a session that did not commit).
tx_rollback(w, p) ==
    [w EXCEPT !.locks = ReleaseLocks(@, p), !.procs[p].writes = <<>>]

\* The write of is_default = v to row m by p.
tx_write(w, p, m, v) ==
    [w EXCEPT !.locks[m] = p,
              !.procs[p].writes =
                  [i \in DOMAIN @ \cup {m} |-> IF i = m THEN v ELSE @[i]]]

\* What p reads in row m: its own write, or else the committed value.
tx_read(w, p, m) ==
    IF m \in DOMAIN w.procs[p].writes THEN w.procs[p].writes[m]
    ELSE w.db.payment_methods[m].is_default

InFlight(w, p) == w.procs[p].pc \notin {"idle", "done"}

\* The call begins: the UPDATE is to visit the rows of the client other
\* than the target.  (overlapped records that the other call was in
\* flight at that moment.)
svc_begin(w, p, payment_method_id, client_id) ==
    [w EXCEPT !.procs[p] =
        [Idle EXCEPT !.pc = "clear", !.target = payment_method_id,
                     !.client_id = client_id,
                     !.overlapped = InFlight(w, Other(p)),
                     !.todo = {m \in DOMAIN w.db.payment_methods :
                                 /\ w.db.payment_methods[m].client_id = client_id
                                 /\ m # payment_method_id}]]

\* The UPDATE sets is_default of one more row to false.
svc_clear_row(w, p, m) ==
    [tx_write(w, p, m, FALSE) EXCEPT !.procs[p].todo = @ \ {m}]

\* self.get(payment_method_id) and what follows it: no row, the call
\* returns None and the request ends with NotFound, nothing committed; a
\* row, the attribute is set.  Setting it to the value it has marks nothing
\* changed, and the commit then has no UPDATE to flush.
svc_get(w, p) ==
    IF w.procs[p].target \notin DOMAIN w.db.payment_methods
    THEN [tx_rollback(w, p) EXCEPT !.procs[p].pc = "done",
                                   !.procs[p].status = NotFound]
    ELSE IF tx_read(w, p, w.procs[p].target)
         THEN [w EXCEPT !.procs[p].pc = "commit"]
         ELSE [w EXCEPT !.procs[p].pc = "flush"]

\* The service with a commit between its UPDATE and its get.
svc_clear_done_commit(w, p) == svc_get(tx_commit(w, p), p)

\* The UPDATE has visited its rows; the next statement is the get.
svc_clear_done(w, p) == svc_get(w, p)

\* self.db.commit(), first part: the UPDATE of the target is flushed.
svc_flush(w, p) ==
    [tx_write(w, p, w.procs[p].target, TRUE) EXCEPT !.procs[p].pc = "commit"]

\* self.db.commit(), second part; the request is answered.
svc_commit(w, p) ==
    [tx_commit(w, p) EXCEPT !.procs[p].pc = "done", !.procs[p].status = OK]

\* The engine ends a waiting statement with an error: the exception
\* handler answers 500 and the session is closed without a commit.
svc_fail(w, p) ==
    [tx_rollback(w, p) EXCEPT !.procs[p].pc = "done",
                              !.procs[p].status = InternalError]

Step(w) ==
    /\ db' = w.db
    /\ procs' = w.procs
    /\ locks' = w.locks
    /\ UNCHANGED resp

Begin(p) ==
    /\ procs[p].pc = "idle"
    /\ \E id \in MethodIds :
          /\ procs[Other(p)].pc # "idle" => procs[Other(p)].target # id
          /\ Step(svc_begin(World, p, id, 1))

ClearRow(p) ==
    /\ procs[p].pc = "clear"
    /\ \E m \in procs[p].todo :
          /\ CanLock(World, p, m)
          /\ Step(svc_clear_row(World, p, m))

ClearDone(p) ==
    /\ procs[p].pc = "clear"
    /\ procs[p].todo = {}
    /\ Step(svc_clear_done(World, p))

Flush(p) ==
    /\ procs[p].pc = "flush"
    /\ CanLock(World, p, procs[p].target)
    /\ Step(svc_flush(World, p))

Commit(p) ==
    /\ procs[p].pc = "commit"
    /\ Step(svc_commit(World, p))

\* p may have to wait: it has a row to write and the other transaction
\* holds a lock (on that row, or on the database where the engine admits
\* one writer at a time).
Waits(p) ==
    /\ \/ procs[p].pc = "clear" /\ procs[p].todo # {}
       \/ procs[p].pc = "flush"
    /\ \E m \in DOMAIN locks : locks[m] = Other(p)

Fail(p) ==
    /\ Waits(p)
    /\ Step(svc_fail(World, p))

\* The methods of client 1 as a sequence of requests, one after the other,
\* leaves them: at most one is the default.
InitPayConc ==
    /\ \E dflt \in {None} \cup (1 .. MaxMethods) :
          db = [SeedScope EXCEPT !.payment_methods =
                    [m \in 1 .. MaxMethods |-> PaymentMethod(1, m = dflt)]]
    /\ resp = NoResp
    /\ procs = [p \in Procs |-> Idle]
    /\ locks = [m \in 1 .. MaxMethods |-> None]

NextPayConc ==
    \E p \in Procs :
        \/ Begin(p)
        \/ ClearRow(p)
        \/ ClearDone(p)
        \/ Flush(p)
        \/ Commit(p)
        \/ Fail(p)

SpecPayConc == InitPayConc /\ [][NextPayConc]_vars

\* C7: when two requests for the same client with different targets have
\* run concurrently and ended, exactly one method of the client is the
\* default, and it is the target of a request that succeeded; with both
\* targets methods that exist, one of the requests did succeed.  (Without a
\* request that succeeded the methods are as they were.)
C7_ConcurrentSetDefault ==
    (\A p \in Procs : procs[p].pc = "done") =>
        /\ (\A p \in Procs : procs[p].target \in DOMAIN db.payment_methods)
              => \E p \in Procs : procs[p].status = OK
        /\ (\E p \in Procs : procs[p].status = OK)
              => \E p \in Procs :
                    /\ procs[p].status = OK
                    /\ DefaultsOf(db, 1) = {procs[p].target}

\* Two requests that overlapped were both answered OK and one method is
\* the default.
C7_Witness ==
    /\ \A p \in Procs : procs[p].pc = "done" /\ procs[p].status = OK
    /\ \E p \in Procs : procs[p].overlapped
    /\ Cardinality(DefaultsOf(db, 1)) = 1

(***************************************************************************)
(* Registration and login (app/api/v1/endpoints/auth.py,                   *)
(* app/services/user_service.py, app/core/exceptions.py).                  *)
(***************************************************************************)
Emails == {"a@x", "b@x"}

Passwords == {"pw1", "pw2"}

Salts == {1, 2}

\* get_password_hash: a salted one-way hash, written as the pair of what
\* was hashed and the salt drawn.
get_password_hash(password, salt) == <<password, salt>>

\* verify_password: the hash was made from this password, whatever the salt.
verify_password(plain_password, hashed_password) ==
    hashed_password[1] = plain_password

\* create_access_token(subject, expires_delta): a token for the subject.
create_access_token(subject) == [sub |-> subject]

\* No token in the answer.
NoToken == [sub |-> ""]

\* UserService.get_by_email: the first row with exactly this email.
get_by_email(d, email) ==
    IF \E u \in DOMAIN d.users : d.users[u].email = email
    THEN Min({u \in DOMAIN d.users : d.users[u].email = email})
    ELSE None

\* authenticate without the comparison of the password.
authenticate_any_password(d, email, password) == get_by_email(d, email)

\* UserService.authenticate
authenticate(d, email, password) ==
    IF get_by_email(d, email) = None THEN None
    ELSE IF ~verify_password(password,
                d.users[get_by_email(d, email)].hashed_password)
         THEN None
         ELSE get_by_email(d, email)

login(d, email, password) ==
    IF authenticate(d, email, password) = None
    THEN [status |-> Unauthorized, token |-> NoToken, token_type |-> ""]
    ELSE IF ~d.users[authenticate(d, email, password)].is_active
         THEN [status |-> BadRequest, token |-> NoToken, token_type |-> ""]
         ELSE [status |-> OK,
               token |-> create_access_token(
                   d.users[authenticate(d, email, password)].email),
               token_type |-> "bearer"]

\* The handler with every database error answered 500.
sqlalchemy_exception_handler_500(exc) == InternalError

\* sqlalchemy_exception_handler: IntegrityError is answered 409, any other
\* database error 500.
sqlalchemy_exception_handler(exc) ==
    IF exc = "IntegrityError" THEN Conflict ELSE InternalError

\* register without the look-up of the email.
register_check_nothing(d, user_in) == None

\* register, first part: the look-up.  An account with the email: 400;
\* otherwise the request goes on (None).
register_check(d, user_in) ==
    IF get_by_email(d, user_in.email) # None THEN BadRequest ELSE None

\* UserService.create: INSERT and COMMIT.  users.email is unique, so with
\* the email stored already the INSERT raises IntegrityError.
UserService_create(d, user_in, salt) ==
    IF \E u \in DOMAIN d.users : d.users[u].email = user_in.email
    THEN [exc |-> "IntegrityError", db |-> d]
    ELSE [exc |-> "",
          db |-> [d EXCEPT !.users =
                    Insert(@, User(user_in.email,
                                   get_password_hash(user_in.password, salt),
                                   TRUE, user_in.is_trainer))]]

\* register, second part: the account is created and returned, or the
\* exception of the service is answered by its handler.
register_create(d, user_in, salt) ==
    LET r == UserService_create(d, user_in, salt)
    IN IF r.exc # ""
       THEN Answer(sqlalchemy_exception_handler(r.exc), r.db)
       ELSE Answer(OK, r.db)

\* UserService.update(user, {"is_active": False})
UserService_deactivate(d, u) == [d EXCEPT !.users[u].is_active = FALSE]

(***************************************************************************)
(* SpecAuth: two connections that register, each request in two steps      *)
(* (look-up, then insert and commit), and logins.                          *)
(***************************************************************************)
IdleRequest ==
    [pc |-> "idle", email |-> "", password |-> "", status |-> None]

RegisterCheck(p) ==
    /\ procs[p].pc = "idle"
    /\ \E email \in Emails, password \in Passwords :
          LET user_in == [email |-> email, password |-> password,
                          is_trainer |-> FALSE]
              st == register_check(db, user_in)
          IN procs' = [procs EXCEPT ![p] =
                 IF st = None
                 THEN [pc |-> "checked", email |-> email,
                       password |-> password, status |-> None]
                 ELSE [pc |-> "done", email |-> email,
                       password |-> "", status |-> st]]
    /\ UNCHANGED <<db, resp, locks>>

RegisterCreate(p) ==
    /\ procs[p].pc = "checked"
    /\ \E salt \in Salts :
          LET a == register_create(db, [email |-> procs[p].email,
                                        password |-> procs[p].password,
                                        is_trainer |-> FALSE], salt)
          IN /\ db' = a.db
             /\ procs' = [procs EXCEPT ![p].pc = "created",
                                       ![p].password = "",
                                       ![p].status = a.status]
    /\ UNCHANGED <<resp, locks>>

\* The answer is sent; the connection is free for its next request.
RegisterEnd(p) ==
    /\ procs[p].pc \in {"done", "created"}
    /\ procs' = [procs EXCEPT ![p] = IdleRequest]
    /\ UNCHANGED <<db, resp, locks>>

Login ==
    /\ \E email \in Emails, password \in Passwords :
          LET a == login(db, email, password)
          IN resp' = [op |-> "login", email |-> email, password |-> password,
                      status |-> a.status, token |-> a.token,
                      token_type |-> a.token_type]
    /\ UNCHANGED <<db, procs, locks>>

Deactivate ==
    /\ \E u \in DOMAIN db.users :
          /\ db.users[u].is_active
          /\ db' = UserService_deactivate(db, u)
    /\ UNCHANGED <<resp, procs, locks>>

InitAuth ==
    /\ db = EmptyDb
    /\ resp = [op |-> "none", email |-> "", password |-> "",
               status |-> None, token |-> NoToken, token_type |-> ""]
    /\ procs = [p \in Procs |-> IdleRequest]
    /\ locks = <<>>

NextAuth ==
    \/ \E p \in Procs : RegisterCheck(p)
    \/ \E p \in Procs : RegisterCreate(p)
    \/ \E p \in Procs : RegisterEnd(p)
    \/ Login
    \/ Deactivate

SpecAuth == InitAuth /\ [][NextAuth]_vars

AccountsWith(d, email) == {u \in DOMAIN d.users : d.users[u].email = email}

\* C8 as the code has it: register called with an email that an account
\* has already is answered 400 (Bad Request), no account is created and
\* the stored accounts, password hashes included, are unchanged.
C8_DuplicateEmailRefused ==
    [][\A p \in Procs :
          (/\ procs[p].pc = "idle"
           /\ procs'[p].pc # "idle"
           /\ AccountsWith(db, procs'[p].email) # {})
          => /\ procs'[p].pc = "done"
             /\ procs'[p].status = BadRequest
             /\ db' = db]_vars

\* A second registration of a stored email was answered 400, and the one
\* account with the email has the hash of the first password.
C8_Witness ==
    \E p \in Procs :
        /\ procs[p].pc = "done"
        /\ procs[p].status = BadRequest
        /\ Cardinality(AccountsWith(db, procs[p].email)) = 1

\* C8 as stated: the answer to register with a stored email is Conflict.
C8_DuplicateEmailConflict ==
    [][\A p \in Procs :
          (/\ procs[p].pc = "idle"
           /\ procs'[p].pc # "idle"
           /\ AccountsWith(db, procs'[p].email) # {})
          => /\ procs'[p].status = Conflict
             /\ db' = db]_vars

\* C9: at most one account has any one email; and of two requests for the
\* same email that both passed the look-up, one created the account and
\* the other was answered Conflict.
C9_ConcurrentRegister ==
    /\ \A email \in Emails : Cardinality(AccountsWith(db, email)) <= 1
    /\ \A p \in Procs :
          procs[p].pc = "created" => procs[p].status \in {OK, Conflict}
    /\ \A p, q \in Procs :
          (/\ p # q
           /\ procs[p].pc = "created"
           /\ procs[q].pc = "created"
           /\ procs[p].email = procs[q].email)
          => {procs[p].status, procs[q].status} = {OK, Conflict}

\* Two requests for one email both passed the look-up; one was answered
\* OK and the other Conflict.
C9_Witness ==
    /\ procs[1].pc = "created" /\ procs[1].status = OK
    /\ procs[2].pc = "created" /\ procs[2].status = Conflict
    /\ procs[1].email = procs[2].email

MaxTime == 3

\* ACCESS_TOKEN_EXPIRE_MINUTES, in ticks of the model's clock.
TokenLifetime == 2

NoBearer == [kind |-> "none", sub |-> "", exp |-> 0]

\* A token with a wrong signature: it may name any account and any expiry.
InvalidBearer == [kind |-> "invalid", sub |-> "t1@x", exp |-> MaxTime + TokenLifetime]

\* login's access_token: create_access_token's token, which expires
\* expires_delta after it is issued.
SignedBearer(token, now) ==
    [kind |-> "signed", sub |-> token.sub, exp |-> now + TokenLifetime]

\* security.verify_token: the subject of a token that the application
\* signed and that has not expired; otherwise nothing ("").
verify_token(bearer, now) ==
    IF bearer.kind = "signed" /\ now < bearer.exp THEN bearer.sub ELSE ""

\* get_current_user that checks is_active as login does.
get_current_user_active(d, bearer, now) ==
    IF bearer.kind = "none" THEN None
    ELSE IF verify_token(bearer, now) = "" THEN None
    ELSE IF get_by_email(d, verify_token(bearer, now)) = None THEN None
    ELSE IF ~d.users[get_by_email(d, verify_token(bearer, now))].is_active
         THEN None
         ELSE get_by_email(d, verify_token(bearer, now))

\* get_current_user that falls back on the first account.
get_current_user_fallback(d, bearer, now) ==
    IF bearer.kind = "none" THEN Min(DOMAIN d.users)
    ELSE IF verify_token(bearer, now) = "" THEN Min(DOMAIN d.users)
    ELSE IF get_by_email(d, verify_token(bearer, now)) = None
         THEN Min(DOMAIN d.users)
         ELSE get_by_email(d, verify_token(bearer, now))

\* get_current_user: oauth2_scheme refuses a request without a token, then
\* the token is verified and its subject looked up.  None stands for the
\* 401 the dependency raises.
get_current_user(d, bearer, now) ==
    IF bearer.kind = "none" THEN None
    ELSE IF verify_token(bearer, now) = "" THEN None
    ELSE get_by_email(d, verify_token(bearer, now))

read_users_me(d, u) == Answer(OK, d)

ProtectedOps ==
    {"read_users_me", "read_client", "update_client", "delete_client",
     "create_client"}

\* The routed endpoint, called with the user its dependency resolved.
endpoint(d, u, op, client_id, client_in) ==
    CASE op = "read_users_me" -> read_users_me(d, u)
      [] op = "read_client" -> read_client(d, u, client_id)
      [] op = "update_client" -> update_client(d, u, client_id, client_in)
      [] op = "delete_client" -> delete_client(d, u, client_id)
      [] op = "create_client" -> create_client(d, u)

\* A request to a protected endpoint: Depends(get_current_user) runs before
\* the endpoint, and its 401 is the answer when it raises.
protected(d, bearer, now, op, client_id, client_in) ==
    LET u == get_current_user(d, bearer, now)
    IN IF u = None
       THEN [status |-> Unauthorized, db |-> d, user |-> None]
       ELSE [status |-> endpoint(d, u, op, client_id, client_in).status,
             db |-> endpoint(d, u, op, client_id, client_in).db,
             user |-> u]

(***************************************************************************)
(* SpecToken: logins that issue tokens, a clock, deactivation of accounts, *)
(* and requests to protected endpoints with whatever a client can send.    *)
(* procs is the world outside the database: the clock and, per email, the  *)
(* expiry of the token its holder keeps (0: none).                         *)
(***************************************************************************)
LoginEmails == {"t1@x", "c1@x"}

\* A token kept from before the accounts were stored anew: no account has
\* its subject.
GoneBearer == [kind |-> "signed", sub |-> "gone@x", exp |-> TokenLifetime]

HeldBearers ==
    {[kind |-> "signed", sub |-> e, exp |-> procs.held[e]] :
        e \in {x \in LoginEmails : procs.held[x] # 0}}

Event(op, bearer, status, user) ==
    [op |-> op, bearer |-> bearer, status |-> status, user |-> user]

TLogin ==
    /\ procs.now < MaxTime
    /\ \E email \in LoginEmails, password \in {"pw", "bad"} :
          LET a == login(db, email, password)
          IN IF a.status = OK
             THEN /\ procs' = [procs EXCEPT
                                 !.held[email] = SignedBearer(a.token, procs.now).exp]
                  /\ resp' = Event("login", SignedBearer(a.token, procs.now),
                                   a.status, get_by_email(db, email))
             ELSE /\ procs' = procs
                  /\ resp' = Event("login", NoBearer, a.status,
                                   get_by_email(db, email))
    /\ UNCHANGED <<db, locks>>

TDeactivate ==
    /\ \E u \in DOMAIN db.users :
          /\ db.users[u].email \in LoginEmails
          /\ db.users[u].is_active
          /\ db' = UserService_deactivate(db, u)
          /\ resp' = Event("deactivate", NoBearer, OK, u)
    /\ UNCHANGED <<procs, locks>>

Tick ==
    /\ procs.now < MaxTime
    /\ procs' = [procs EXCEPT !.now = @ + 1]
    /\ resp' = Event("tick", NoBearer, OK, None)
    /\ UNCHANGED <<db, locks>>

TRequest ==
    /\ \E bearer \in {NoBearer, InvalidBearer, GoneBearer} \cup HeldBearers,
          op \in ProtectedOps :
       \E client_id \in IF op \in {"read_users_me", "create_client"}
                         THEN {None} ELSE {1, 2},
          client_in \in IF op = "update_client" THEN ClientUpdates ELSE {<<>>} :
          LET a == protected(db, bearer, procs.now, op, client_id, client_in)
          IN /\ db' = a.db
             /\ resp' = Event(op, bearer, a.status, a.user)
    /\ UNCHANGED <<procs, locks>>

InitToken ==
    /\ db = [SeedAccounts EXCEPT !.clients = (1 :> Client(4, 1, TRUE))]
    /\ resp = Event("none", NoBearer, None, None)
    /\ procs = [now |-> 0, held |-> [e \in LoginEmails |-> 0]]
    /\ locks = <<>>

NextToken ==
    \/ TLogin
    \/ TDeactivate
    \/ Tick
    \/ TRequest

SpecToken == InitToken /\ [][NextToken]_vars

\* C11: a request to a protected endpoint that carries no token, a token
\* that is invalid or has expired, or a token whose subject no account has
\* is answered Unauthorized, nothing is returned of any account and the
\* stored data is unchanged.
C11_UnauthorizedWithoutValidToken ==
    [][(/\ resp'.op \in ProtectedOps
        /\ \/ resp'.bearer.kind # "signed"
           \/ resp'.bearer.exp <= procs.now
           \/ AccountsWith(db, resp'.bearer.sub) = {})
       => /\ resp'.status = Unauthorized
          /\ resp'.user = None
          /\ db' = db]_vars

\* delete_client was asked for with the expired token of an existing
\* trainer account, for a client that trainer owns: 401, the row is there.
C11_Witness ==
    /\ resp.op = "delete_client"
    /\ resp.status = Unauthorized
    /\ resp.bearer.kind = "signed"
    /\ resp.bearer.sub = "t1@x"
    /\ resp.bearer.exp <= procs.now
    /\ 1 \in DOMAIN db.clients

MaxLogs == 3

MaxDay == 2

\* A workout_logs row with the columns the statistics read.
WorkoutLogEntry(client_id, trainer_id, date, duration_minutes, calories_burned, completed) ==
    [client_id |-> client_id, trainer_id |-> trainer_id, date |-> date,
     duration_minutes |-> duration_minutes,
     calories_burned |-> calories_burned, completed |-> completed]

\* sum(<column> or 0 for w in workouts)
RECURSIVE SumOf(_, _, _)
SumOf(t, ids, column) ==
    IF ids = {} THEN 0
    ELSE LET w == CHOOSE w \in ids : TRUE
         IN t[w][column] + SumOf(t, ids \ {w}, column)

Quotient(num, den) == [num |-> num, den |-> den]

\* The dictionary the service returns, from the rows its query selected.
StatsOf(t, workouts, days) ==
    [total_workouts |-> Cardinality(workouts),
     total_duration_minutes |-> SumOf(t, workouts, "duration_minutes"),
     total_calories_burned |-> SumOf(t, workouts, "calories_burned"),
     average_duration |->
        IF Cardinality(workouts) > 0
        THEN Quotient(SumOf(t, workouts, "duration_minutes"),
                      Cardinality(workouts))
        ELSE Quotient(0, 1),
     workouts_per_week |->
        IF days > 0 THEN Quotient(Cardinality(workouts) * 7, days)
        ELSE Quotient(0, 1)]

\* `WorkoutLog.completed is True`: Python's identity test of the column
\* object with True, evaluated when the filter is built.  It is False for
\* every row, and and_() with False selects nothing.
completed_is_True(row) == FALSE

\* WorkoutLogService.get_workout_stats
WorkoutLogService_get_workout_stats(d, client_id, days, now) ==
    LET start_date == now - days
        workouts == {w \in DOMAIN d.workout_logs :
                        /\ d.workout_logs[w].client_id = client_id
                        /\ d.workout_logs[w].date >= start_date
                        /\ completed_is_True(d.workout_logs[w])}
    IN StatsOf(d.workout_logs, workouts, days)

(***************************************************************************)
(* SpecStats: workout logs of two clients stored over some days, and       *)
(* trainer 1 asking for the statistics of a client.                        *)
(***************************************************************************)
NoStats == StatsOf(<<>>, {}, 0)

StatsEvent(op, client_id, days, status, stats) ==
    [op |-> op, client_id |-> client_id, days |-> days, status |-> status,
     stats |-> stats]

\* A workout log stored today (date defaults to now).
LogWorkout ==
    /\ Cardinality(DOMAIN db.workout_logs) < MaxLogs
    /\ \E c \in {1, 2}, duration \in {30, 45, 60}, calories \in {100},
          completed \in BOOLEAN :
          /\ db' = [db EXCEPT !.workout_logs =
                       Insert(@, WorkoutLogEntry(c, 1, procs.now, duration,
                                                 calories, completed))]
          /\ resp' = StatsEvent("create_workout_log", c, 0, OK, NoStats)
    /\ UNCHANGED <<procs, locks>>

NextDay ==
    /\ procs.now < MaxDay
    /\ procs' = [procs EXCEPT !.now = @ + 1]
    /\ resp' = StatsEvent("next_day", None, 0, OK, NoStats)
    /\ UNCHANGED <<db, locks>>

StatsRequest ==
    /\ \E c \in {1, 2}, days \in {1, 2} :
          LET a == get_workout_stats(db, 1, c)
          IN resp' = StatsEvent("get_workout_stats", c, days, a.status,
                        IF a.status = OK
                        THEN WorkoutLogService_get_workout_stats(
                                 db, c, days, procs.now)
                        ELSE NoStats)
    /\ UNCHANGED <<db, procs, locks>>

InitStats ==
    /\ db = SeedScope
    /\ resp = StatsEvent("none", None, 0, None, NoStats)
    /\ procs = [now |-> 0]
    /\ locks = <<>>

NextStats ==
    \/ LogWorkout
    \/ NextDay
    \/ StatsRequest

SpecStats == InitStats /\ [][NextStats]_vars

\* The client's completed workout logs dated within the last `days` days.
CompletedInWindow(d, client_id, days, now) ==
    {w \in DOMAIN d.workout_logs :
        /\ d.workout_logs[w].client_id = client_id
        /\ d.workout_logs[w].completed
        /\ d.workout_logs[w].date >= now - days}

\* C13: get_workout_stats counts exactly the client's completed workout
\* logs of the last `days` days and returns their number, the sums of their
\* durations and calories, average = sum / count (0 for no log) and
\* workouts_per_week = count / days * 7.
C13_WorkoutStats ==
    resp.op = "get_workout_stats" =>
        LET logs == CompletedInWindow(db, resp.client_id, resp.days, procs.now)
        IN /\ resp.status = OK
           /\ resp.stats.total_workouts = Cardinality(logs)
           /\ resp.stats.total_duration_minutes =
                 SumOf(db.workout_logs, logs, "duration_minutes")
           /\ resp.stats.total_calories_burned =
                 SumOf(db.workout_logs, logs, "calories_burned")
           /\ resp.stats.average_duration.num * Cardinality(logs) =
                 SumOf(db.workout_logs, logs, "duration_minutes")
                    * resp.stats.average_duration.den
           /\ resp.stats.workouts_per_week.num * resp.days =
                 Cardinality(logs) * 7 * resp.stats.workouts_per_week.den

(***************************************************************************)
(* Programs and the exercises assigned to them                             *)
(* (app/services/program_service.py, app/services/exercise_service.py).    *)
(***************************************************************************)
MaxExercises == 1

MaxPrograms == 2

MaxAssignments == 2

\* An exercises row.
Exercise(is_active) == [is_active |-> is_active]

\* The database with the exercises and exercise_logs tables.
WithExercises(d) == [exercises |-> EmptyTable, exercise_logs |-> EmptyTable] @@ d

\* ExerciseService.remove: db.delete(obj).  Exercise.program_exercises and
\* the backref exercise_logs have no delete cascade, so the ORM sets
\* exercise_id to NULL in the rows that referenced the exercise.
ExerciseService_remove(d, id) ==
    [d EXCEPT
        !.exercises = Delete(@, id),
        !.program_exercises =
            [i \in DOMAIN @ |->
                IF @[i].exercise_id = id THEN [@[i] EXCEPT !.exercise_id = None]
                ELSE @[i]],
        !.exercise_logs =
            [i \in DOMAIN @ |->
                IF @[i].exercise_id = id THEN [@[i] EXCEPT !.exercise_id = None]
                ELSE @[i]]]

delete_exercise(d, u, exercise_id) ==
    IF ~d.users[u].is_trainer THEN Answer(Forbidden, d)
    ELSE IF exercise_id \notin DOMAIN d.exercises THEN Answer(NotFound, d)
    ELSE Answer(OK, ExerciseService_remove(d, exercise_id))

\* ProgramService.get_with_exercises: the program, with the rows its
\* program_exercises relationship loads; None when no program has the id.
ProgramService_get_with_exercises(d, id) ==
    IF id \notin DOMAIN d.programs THEN [found |-> FALSE, program_exercises |-> {}]
    ELSE [found |-> TRUE,
          program_exercises |->
              {i \in DOMAIN d.program_exercises :
                  d.program_exercises[i].program_id = id}]

(***************************************************************************)
(* SpecProg: trainer 1 creates and deletes programs and exercises, and     *)
(* adds and removes assignments.  A table's next key is one more than its  *)
(* greatest, so the guards bound the keys.                                 *)
(***************************************************************************)
\* exercise_id values of a request: the ids exercises can have, and one no
\* exercise has.
RequestExerciseIds == 1 .. (MaxExercises + 1)

\* The exercises lists of a ProgramCreate body.
AssignmentLists ==
    {<<>>} \cup {<<e>> : e \in RequestExerciseIds}
           \cup {<<e, f>> : e \in RequestExerciseIds, f \in RequestExerciseIds}

ProgEvent(op, target, n, success, rows) ==
    [op |-> op, target |-> target, n |-> n, success |-> success, rows |-> rows]

InsertExercise ==
    /\ NextId(db.exercises) <= MaxExercises
    /\ db' = [db EXCEPT !.exercises = Insert(@, Exercise(TRUE))]
    /\ resp' = ProgEvent("create_exercise", NextId(db.exercises), 0, TRUE, {})
    /\ UNCHANGED <<procs, locks>>

DeleteExercise ==
    /\ \E e \in RequestExerciseIds :
          LET a == delete_exercise(db, 1, e)
          IN /\ db' = a.db
             /\ resp' = ProgEvent("delete_exercise", e, 0, a.status = OK, {})
    /\ UNCHANGED <<procs, locks>>

PCreateProgram ==
    /\ NextId(db.programs) <= MaxPrograms
    /\ \E exercises \in AssignmentLists :
          /\ NextId(db.program_exercises) + Len(exercises) <= MaxAssignments + 1
          /\ LET a == create_program(db, 1, [client_id |-> 1,
                                            exercises |-> exercises])
             IN /\ db' = a.db
                /\ resp' = ProgEvent("create_program", NextId(db.programs),
                                     Len(exercises), a.status = OK, {})
    /\ UNCHANGED <<procs, locks>>

PGetWithExercises ==
    /\ \E id \in 1 .. MaxPrograms :
          LET r == ProgramService_get_with_exercises(db, id)
          IN resp' = ProgEvent("get_with_exercises", id, 0, r.found,
                               r.program_exercises)
    /\ UNCHANGED <<db, procs, locks>>

PAddExercise ==
    /\ NextId(db.program_exercises) <= MaxAssignments
    /\ \E id \in 1 .. MaxPrograms, e \in RequestExerciseIds :
          LET a == add_exercise_to_program(db, 1, id, [exercise_id |-> e])
          IN /\ db' = a.db
             /\ resp' = ProgEvent("add_exercise", id, e, a.status = OK, {})
    /\ UNCHANGED <<procs, locks>>

PRemoveExercise ==
    /\ \E id \in 1 .. MaxPrograms, e \in RequestExerciseIds :
          LET r == ProgramService_remove_exercise(db, id, e)
          IN /\ db' = r.db
             /\ resp' = ProgEvent("remove_exercise", id, e, r.success, {})
    /\ UNCHANGED <<procs, locks>>

PDeleteProgram ==
    /\ \E id \in 1 .. MaxPrograms :
          LET a == delete_program(db, 1, id)
          IN /\ db' = a.db
             /\ resp' = ProgEvent("delete_program", id, 0, a.status = OK, {})
    /\ UNCHANGED <<procs, locks>>

InitProg ==
    /\ db = WithExercises(SeedScope)
    /\ resp = ProgEvent("none", None, 0, FALSE, {})
    /\ procs = <<>>
    /\ locks = <<>>

NextProg ==
    \/ InsertExercise
    \/ DeleteExercise
    \/ PCreateProgram
    \/ PGetWithExercises
    \/ PAddExercise
    \/ PRemoveExercise
    \/ PDeleteProgram

SpecProg == InitProg /\ [][NextProg]_vars

\* C14: get_with_exercises called on a program right after it was created
\* with N exercise assignments returns the program with exactly N
\* assignments, and each references an exercise that exists.
C14_CreateThenGetWithExercises ==
    [][(/\ resp.op = "create_program"
        /\ resp.success
        /\ resp'.op = "get_with_exercises"
        /\ resp'.target = resp.target)
       => /\ resp'.success
          /\ Cardinality(resp'.rows) = resp.n
          /\ \A i \in resp'.rows :
                db.program_exercises[i].exercise_id \in DOMAIN db.exercises]_vars

\* C15: every program_exercises row references an exercise that exists and
\* a program that exists.
C15_AssignmentsReferToRows ==
    \A i \in DOMAIN db.program_exercises :
        /\ db.program_exercises[i].exercise_id \in DOMAIN db.exercises
        /\ db.program_exercises[i].program_id \in DOMAIN db.programs

\* C17: remove_exercise with a row that has the program_id and the
\* exercise_id returns true and deletes one such row and nothing else;
\* with no such row it returns false and changes nothing.
C17_RemoveExercise ==
    [][resp'.op = "remove_exercise" =>
        LET match == {i \in DOMAIN db.program_exercises :
                         /\ db.program_exercises[i].program_id = resp'.target
                         /\ db.program_exercises[i].exercise_id = resp'.n}
        IN IF match = {}
           THEN ~resp'.success /\ db' = db
           ELSE /\ resp'.success
                /\ \E i \in match :
                      db' = [db EXCEPT !.program_exercises = Delete(@, i)]]_vars

\* An assignment of one program was removed while another program had an
\* assignment of the same exercise, which is still there.
C17_Witness ==
    /\ resp.op = "remove_exercise"
    /\ resp.success
    /\ \E i \in DOMAIN db.program_exercises :
          /\ db.program_exercises[i].exercise_id = resp.n
          /\ db.program_exercises[i].program_id # resp.target
          /\ db.program_exercises[i].program_id \in DOMAIN db.programs

(***************************************************************************)
(* Creation of a row with its children in one session                      *)
(* (ProgramService.create, WorkoutLogService.create).  A fault is the      *)
(* write of the child at position `at` failing with the exception `exc`;   *)
(* at = 0 is no fault.                                                     *)
(***************************************************************************)
ExerciseLog(workout_log_id, exercise_id) ==
    [workout_log_id |-> workout_log_id, exercise_id |-> exercise_id]

NoFault == [at |-> 0, exc |-> ""]

Faults(n) ==
    {NoFault} \cup
    {[at |-> k, exc |-> e] : k \in 1 .. n,
                             e \in {"IntegrityError", "OperationalError"}}

\* A failed flush rolls the session's transaction back.
Session_rollback(s) == [committed |-> s.committed, pending |-> s.committed]

\* ProgramService.create with the program committed before its exercises
\* are written.
ProgramService_create_commit_first(s, obj_in, trainer_id, fault) ==
    IF fault.at # 0
    THEN [exc |-> fault.exc,
          session |-> Session(ProgramService_create(
                         s.pending, [obj_in EXCEPT !.exercises = <<>>],
                         trainer_id))]
    ELSE [exc |-> "",
          session |-> Session_commit(
              [s EXCEPT !.pending = ProgramService_create(@, obj_in, trainer_id)])]

\* ProgramService.create in its session: the program is added and flushed,
\* the exercises are added, and commit() writes them and commits.  The
\* write of a child that fails raises out of commit(), nothing committed.
ProgramService_create_in_session(s, obj_in, trainer_id, fault) ==
    IF fault.at # 0
    THEN [exc |-> fault.exc,
          session |-> Session_rollback(
              [s EXCEPT !.pending = ProgramService_create(
                  @, [obj_in EXCEPT !.exercises = <<>>], trainer_id)])]
    ELSE [exc |-> "",
          session |-> Session_commit(
              [s EXCEPT !.pending = ProgramService_create(@, obj_in, trainer_id)])]

\* WorkoutLogService.create in its session, in the same pattern: the log
\* is added and flushed, one exercise_logs row is added for each exercise
\* of the body, and commit() writes them and commits.
WorkoutLogService_create_in_session(s, obj_in, trainer_id, fault) ==
    IF fault.at # 0
    THEN [exc |-> fault.exc,
          session |-> Session_rollback(
              [s EXCEPT !.pending = WorkoutLogService_create(@, obj_in, trainer_id)])]
    ELSE [exc |-> "",
          session |-> Session_commit(
              [s EXCEPT !.pending =
                  [WorkoutLogService_create(@, obj_in, trainer_id) EXCEPT
                      !.exercise_logs =
                          InsertAll(@, [i \in DOMAIN obj_in.exercises |->
                              ExerciseLog(NextId(s.pending.workout_logs),
                                          obj_in.exercises[i])])]])]

\* The answer to a request whose service call returned r in a session of
\* the request's own: the handler's status for an exception, and what the
\* session had committed when get_db closed it.
SessionAnswer(r) ==
    Answer(IF r.exc # "" THEN sqlalchemy_exception_handler(r.exc) ELSE OK,
           Session_close(r.session))

create_program_in_session(d, u, program_in, fault) ==
    IF ~d.users[u].is_trainer THEN Answer(Forbidden, d)
    ELSE IF TrainerIdOf(d, u) = None THEN Answer(NotFound, d)
    ELSE SessionAnswer(ProgramService_create_in_session(
             Session(d), program_in, TrainerIdOf(d, u), fault))

create_workout_log_in_session(d, u, workout_in, fault) ==
    IF d.users[u].is_trainer
    THEN IF TrainerIdOf(d, u) = None THEN Answer(NotFound, d)
         ELSE SessionAnswer(WorkoutLogService_create_in_session(
                  Session(d), workout_in, TrainerIdOf(d, u), fault))
    ELSE IF ClientsOf(d, u) = {} THEN Answer(NotFound, d)
         ELSE Answer(InternalError, d)

(***************************************************************************)
(* SpecAtomic: trainer 1 creates programs and workout logs with children,  *)
(* some writes of children failing, and adds exercises to programs (a      *)
(* later operation that commits).  procs counts the rows that successful   *)
(* requests stored.                                                        *)
(***************************************************************************)
\* The exercises lists of the bodies: none, one or two children.
ChildLists == {<<>>, <<1>>, <<1, 1>>}

AtomicEvent(op, n, fault, status) ==
    [op |-> op, n |-> n, fault |-> fault, status |-> status]

Stored(programs, program_exercises, workout_logs, exercise_logs, failed) ==
    [programs |-> programs, program_exercises |-> program_exercises,
     workout_logs |-> workout_logs, exercise_logs |-> exercise_logs,
     failed |-> failed]

ACreateProgram ==
    /\ Cardinality(DOMAIN db.programs) < MaxPrograms
    /\ \E exercises \in ChildLists :
       \E fault \in Faults(Len(exercises)) :
          /\ Cardinality(DOMAIN db.program_exercises) + Len(exercises)
                <= MaxAssignments
          /\ LET a == create_program_in_session(
                          db, 1, [client_id |-> 1, exercises |-> exercises], fault)
             IN /\ db' = a.db
                /\ resp' = AtomicEvent("create_program", Len(exercises),
                                       fault.at, a.status)
                /\ procs' = IF a.status = OK
                            THEN [procs EXCEPT
                                    !.programs = @ + 1,
                                    !.program_exercises = @ + Len(exercises)]
                            ELSE [procs EXCEPT !.failed = TRUE]
    /\ UNCHANGED locks

ACreateWorkoutLog ==
    /\ Cardinality(DOMAIN db.workout_logs) < MaxPrograms
    /\ \E exercises \in ChildLists :
       \E fault \in Faults(Len(exercises)) :
          /\ Cardinality(DOMAIN db.exercise_logs) + Len(exercises)
                <= MaxAssignments
          /\ LET a == create_workout_log_in_session(
                          db, 1, [client_id |-> 1, exercises |-> exercises], fault)
             IN /\ db' = a.db
                /\ resp' = AtomicEvent("create_workout_log", Len(exercises),
                                       fault.at, a.status)
                /\ procs' = IF a.status = OK
                            THEN [procs EXCEPT
                                    !.workout_logs = @ + 1,
                                    !.exercise_logs = @ + Len(exercises)]
                            ELSE [procs EXCEPT !.failed = TRUE]
    /\ UNCHANGED locks

AAddExercise ==
    /\ Cardinality(DOMAIN db.program_exercises) < MaxAssignments
    /\ \E id \in 1 .. MaxPrograms :
          LET a == add_exercise_to_program(db, 1, id, [exercise_id |-> 1])
          IN /\ db' = a.db
             /\ resp' = AtomicEvent("add_exercise", 1, 0, a.status)
             /\ procs' = IF a.status = OK
                         THEN [procs EXCEPT !.program_exercises = @ + 1]
                         ELSE procs
    /\ UNCHANGED locks

InitAtomic ==
    /\ db = WithExercises(SeedScope)
    /\ resp = AtomicEvent("none", 0, 0, None)
    /\ procs = Stored(0, 0, 0, 0, FALSE)
    /\ locks = <<>>

NextAtomic ==
    \/ ACreateProgram
    \/ ACreateWorkoutLog
    \/ AAddExercise

SpecAtomic == InitAtomic /\ [][NextAtomic]_vars

\* C16: the programs, program_exercises, workout_logs and exercise_logs
\* rows stored are those of the requests that succeeded: a creation whose
\* child write failed stored neither the parent nor any child, at once or
\* with the commit of a later request; and such a creation is answered
\* with an error.
C16_AtomicCreate ==
    /\ Cardinality(DOMAIN db.programs) = procs.programs
    /\ Cardinality(DOMAIN db.program_exercises) = procs.program_exercises
    /\ Cardinality(DOMAIN db.workout_logs) = procs.workout_logs
    /\ Cardinality(DOMAIN db.exercise_logs) = procs.exercise_logs
    /\ (resp.fault # 0 => resp.status \in {Conflict, InternalError})

\* A creation failed at its second child; later an exercise was added to
\* a program and committed.
C16_Witness ==
    /\ procs.failed
    /\ resp.op = "add_exercise"
    /\ resp.status = OK

(***************************************************************************)
(* Goals (app/services/progress_service.py, GoalService).  Dates are whole *)
(* days from 1; None is the NULL of achieved_date.                         *)
(***************************************************************************)
MaxGoals == 2

\* A goals row with the columns mark_goal_achieved and get_overdue_goals
\* read and write.
GoalEntry(client_id, trainer_id, target_date, target_value, current_value, is_active) ==
    [client_id |-> client_id, trainer_id |-> trainer_id,
     target_date |-> target_date, target_value |-> target_value,
     current_value |-> current_value, is_active |-> is_active,
     is_achieved |-> FALSE, achieved_date |-> None]

\* GoalService.create: the body's columns and the caller's trainer id;
\* is_achieved takes the column's default.
GoalService_create_entry(d, obj_in, trainer_id) ==
    [d EXCEPT !.goals =
        Insert(@, GoalEntry(obj_in.client_id, trainer_id, obj_in.target_date,
                            obj_in.target_value, obj_in.current_value,
                            obj_in.is_active))]

\* mark_goal_achieved that leaves a goal already achieved as it is.
GoalService_mark_goal_achieved_once(d, goal_id, now) ==
    IF goal_id \in DOMAIN d.goals /\ ~d.goals[goal_id].is_achieved
    THEN [found |-> TRUE,
          db |-> [d EXCEPT !.goals[goal_id].is_achieved = TRUE,
                           !.goals[goal_id].achieved_date = now]]
    ELSE [found |-> goal_id \in DOMAIN d.goals, db |-> d]

\* GoalService.mark_goal_achieved at the time `now`: the goal, with
\* is_achieved and achieved_date written, or None when no goal has the id.
GoalService_mark_goal_achieved_at(d, goal_id, now) ==
    IF goal_id \in DOMAIN d.goals
    THEN [found |-> TRUE,
          db |-> [d EXCEPT !.goals[goal_id].is_achieved = TRUE,
                           !.goals[goal_id].achieved_date = now]]
    ELSE [found |-> FALSE, db |-> d]

\* `Goal.is_achieved is False` and `Goal.is_active is True`: Python's
\* identity tests of the column objects, evaluated when the filter is
\* built.  Each is False, and and_() with False selects nothing.
column_is(row, column, value) == FALSE

\* GoalService.get_overdue_goals
GoalService_get_overdue_goals(d, client_id, now) ==
    {g \in DOMAIN d.goals :
        /\ d.goals[g].client_id = client_id
        /\ d.goals[g].target_date < now
        /\ column_is(d.goals[g], "is_achieved", FALSE)
        /\ column_is(d.goals[g], "is_active", TRUE)}

(***************************************************************************)
(* SpecGoals: trainer 1 stores goals for two clients; goals are marked     *)
(* achieved and the overdue goals of a client are asked for as days pass.  *)
(***************************************************************************)
GoalEvent(op, target, before, success, rows) ==
    [op |-> op, target |-> target, before |-> before, success |-> success,
     rows |-> rows]

\* The bodies of create_goal: a goal of client 1 that has reached its
\* target, one due later that has not, one of client 2, and one that is
\* not active.
GoalBodies ==
    {[client_id |-> 1, target_date |-> 1, target_value |-> 1,
      current_value |-> 1, is_active |-> TRUE],
     [client_id |-> 1, target_date |-> 2, target_value |-> 2,
      current_value |-> 1, is_active |-> TRUE],
     [client_id |-> 2, target_date |-> 1, target_value |-> 2,
      current_value |-> 1, is_active |-> TRUE],
     [client_id |-> 1, target_date |-> 1, target_value |-> 2,
      current_value |-> 1, is_active |-> FALSE]}

GCreateGoal ==
    /\ Cardinality(DOMAIN db.goals) < MaxGoals
    /\ \E goal_in \in GoalBodies :
          /\ db' = GoalService_create_entry(db, goal_in, 1)
          /\ resp' = GoalEvent("create_goal", NextId(db.goals), FALSE, TRUE, {})
    /\ UNCHANGED <<procs, locks>>

GMarkGoalAchieved ==
    /\ \E goal_id \in 1 .. (MaxGoals + 1) :
          LET r == GoalService_mark_goal_achieved_at(db, goal_id, procs.now)
          IN /\ db' = r.db
             /\ resp' = GoalEvent("mark_goal_achieved", goal_id,
                           goal_id \in DOMAIN db.goals
                              /\ db.goals[goal_id].is_achieved,
                           r.found, {})
    /\ UNCHANGED <<procs, locks>>

GGetOverdueGoals ==
    /\ \E c \in {1, 2} :
          resp' = GoalEvent("get_overdue_goals", c, FALSE, TRUE,
                            GoalService_get_overdue_goals(db, c, procs.now))
    /\ UNCHANGED <<db, procs, locks>>

GNextDay ==
    /\ procs.now < MaxDay + 1
    /\ procs' = [procs EXCEPT !.now = @ + 1]
    /\ resp' = GoalEvent("next_day", None, FALSE, TRUE, {})
    /\ UNCHANGED <<db, locks>>

InitGoals ==
    /\ db = SeedScope
    /\ resp = GoalEvent("none", None, FALSE, FALSE, {})
    /\ procs = [now |-> 1]
    /\ locks = <<>>

NextGoals ==
    \/ GCreateGoal
    \/ GMarkGoalAchieved
    \/ GGetOverdueGoals
    \/ GNextDay

SpecGoals == InitGoals /\ [][NextGoals]_vars

\* C18: mark_goal_achieved on an existing goal succeeds whatever its
\* current_value and target_value are and whether or not it was achieved
\* already; afterwards is_achieved is true and achieved_date is the time of
\* this call, and nothing else has changed.
C18_MarkGoalAchieved ==
    [][(resp'.op = "mark_goal_achieved" /\ resp'.target \in DOMAIN db.goals)
       => /\ resp'.success
          /\ db'.goals[resp'.target].is_achieved
          /\ db'.goals[resp'.target].achieved_date = procs.now
          /\ db' = [db EXCEPT
                      !.goals[resp'.target].is_achieved = TRUE,
                      !.goals[resp'.target].achieved_date = procs.now]]_vars

\* A goal achieved on an earlier day, whose current_value is below its
\* target_value, was marked achieved again: its date is today's.
C18_Witness ==
    /\ resp.op = "mark_goal_achieved"
    /\ resp.before
    /\ resp.target \in DOMAIN db.goals
    /\ db.goals[resp.target].is_achieved
    /\ db.goals[resp.target].achieved_date = procs.now
    /\ procs.now > 1
    /\ db.goals[resp.target].current_value < db.goals[resp.target].target_value

\* C19: get_overdue_goals returns exactly the client's goals with
\* target_date earlier than now, is_achieved false and is_active true.
C19_OverdueGoals ==
    resp.op = "get_overdue_goals" =>
        resp.rows = {g \in DOMAIN db.goals :
                        /\ db.goals[g].client_id = resp.target
                        /\ db.goals[g].target_date < procs.now
                        /\ ~db.goals[g].is_achieved
                        /\ db.goals[g].is_active}

(***************************************************************************)
(* Payment status (app/services/payment_service.py, PaymentService.update).*)
(***************************************************************************)
MaxPayments == 2

\* PaymentStatus, and a string that is not one of its values (the column
\* is a String(20) and update takes a dictionary).
PaymentStatuses ==
    {"pending", "completed", "failed", "refunded", "cancelled", "processing"}

\* The status changes of the payment's life cycle.
LifeCycle ==
    {<<"pending", "completed">>, <<"pending", "failed">>,
     <<"pending", "cancelled">>, <<"completed", "refunded">>}

\* update that refuses a change of status outside the life cycle.
PaymentService_update_life_cycle(d, id, obj_in) ==
    IF "status" \in DOMAIN obj_in
       /\ <<d.payments[id].status, obj_in.status>> \notin LifeCycle
    THEN d
    ELSE [d EXCEPT !.payments[id] =
            [f \in DOMAIN @ |-> IF f \in DOMAIN obj_in THEN obj_in[f] ELSE @[f]]]

\* PaymentService.update: setattr of every field given, then commit.
PaymentService_update(d, id, obj_in) ==
    [d EXCEPT !.payments[id] =
        [f \in DOMAIN @ |-> IF f \in DOMAIN obj_in THEN obj_in[f] ELSE @[f]]]

(***************************************************************************)
(* SpecPayStatus: payments are created and their status is updated.        *)
(***************************************************************************)
StatusEvent(op, target, before, given) ==
    [op |-> op, target |-> target, before |-> before, given |-> given]

SCreatePayment ==
    /\ Cardinality(DOMAIN db.payments) < MaxPayments
    /\ LET a == create_payment(db, 1, [client_id |-> 1, trainer_id |-> 1])
       IN /\ db' = a.db
          /\ resp' = StatusEvent("create_payment", NextId(db.payments), "", "")
    /\ UNCHANGED <<procs, locks>>

SUpdatePayment ==
    /\ \E id \in DOMAIN db.payments, status \in PaymentStatuses :
          /\ db' = PaymentService_update(db, id, [status |-> status])
          /\ resp' = StatusEvent("update", id, db.payments[id].status, status)
    /\ UNCHANGED <<procs, locks>>

InitPayStatus ==
    /\ db = SeedScope
    /\ resp = StatusEvent("none", None, "", "")
    /\ procs = <<>>
    /\ locks = <<>>

NextPayStatus ==
    \/ SCreatePayment
    \/ SUpdatePayment

SpecPayStatus == InitPayStatus /\ [][NextPayStatus]_vars

\* C20: PaymentService.update with a status stores that status, whatever
\* the status of the payment was, and changes nothing else.
C20_AnyStatusWritten ==
    [][resp'.op = "update" =>
        /\ db'.payments[resp'.target].status = resp'.given
        /\ db' = [db EXCEPT !.payments[resp'.target].status = resp'.given]]_vars

\* A refunded payment was updated back to pending.
C20_Witness ==
    /\ resp.op = "update"
    /\ resp.before = "refunded"
    /\ resp.given = "pending"
    /\ db.payments[resp.target].status = "pending"

(***************************************************************************)
(* Meal plans (app/services/meal_service.py).  Dates are whole days;       *)
(* a null date is None.                                                    *)
(***************************************************************************)
MaxPlans == 2

\* models/meal.py MealPlan, with the columns the active-plan query reads.
MealPlan(client_id, trainer_id, start_date, end_date, is_active) ==
    [client_id |-> client_id, trainer_id |-> trainer_id,
     start_date |-> start_date, end_date |-> end_date,
     is_active |-> is_active]

WithMealPlans(d) ==
    [k \in DOMAIN d \cup {"meal_plans"} |->
        IF k \in DOMAIN d THEN d[k] ELSE EmptyTable]

\* MealPlanService.create (no meals in the body)
MealPlanService_create(d, obj_in, trainer_id) ==
    [d EXCEPT !.meal_plans =
        Insert(@, MealPlan(obj_in.client_id, trainer_id, obj_in.start_date,
                           obj_in.end_date, obj_in.is_active))]

\* MealPlanService.update with a body that sets is_active
MealPlanService_update(d, id, obj_in) ==
    [d EXCEPT !.meal_plans[id].is_active = obj_in.is_active]

\* MealPlanService.get_client_active_plan: the rows the filter selects;
\* .first() returns one of them, or None when there is none.  The second
\* condition is `MealPlan.is_active is True`, the identity test of
\* column_is.  A comparison with a null start_date is not true in SQL.
MealPlanService_get_client_active_plan(d, client_id, now) ==
    {m \in DOMAIN d.meal_plans :
        /\ d.meal_plans[m].client_id = client_id
        /\ column_is(d.meal_plans[m], "is_active", TRUE)
        /\ d.meal_plans[m].start_date # None
        /\ d.meal_plans[m].start_date <= now
        /\ \/ d.meal_plans[m].end_date = None
           \/ d.meal_plans[m].end_date >= now}

(***************************************************************************)
(* SpecMeals: trainer 1 stores meal plans for two clients and switches     *)
(* them on and off; the active plan of a client is asked for as days pass. *)
(***************************************************************************)
MealEvent(op, client_id, plan) ==
    [op |-> op, client_id |-> client_id, plan |-> plan]

MCreateMealPlan ==
    /\ Cardinality(DOMAIN db.meal_plans) < MaxPlans
    /\ \E c \in {1, 2}, start \in {None, 1, 2}, end \in {None, 1, 2},
          active \in BOOLEAN :
          /\ db' = MealPlanService_create(db,
                      [client_id |-> c, start_date |-> start,
                       end_date |-> end, is_active |-> active], 1)
          /\ resp' = MealEvent("create_meal_plan", c, NextId(db.meal_plans))
    /\ UNCHANGED <<procs, locks>>

MUpdateMealPlan ==
    /\ \E m \in DOMAIN db.meal_plans, active \in BOOLEAN :
          /\ db' = MealPlanService_update(db, m, [is_active |-> active])
          /\ resp' = MealEvent("update_meal_plan",
                               db.meal_plans[m].client_id, m)
    /\ UNCHANGED <<procs, locks>>

MGetClientActivePlan ==
    /\ \E c \in {1, 2} :
          LET found == MealPlanService_get_client_active_plan(db, c, procs.now)
          IN \E plan \in (IF found = {} THEN {None} ELSE found) :
                resp' = MealEvent("get_client_active_plan", c, plan)
    /\ UNCHANGED <<db, procs, locks>>

MNextDay ==
    /\ procs.now < MaxDay + 1
    /\ procs' = [procs EXCEPT !.now = @ + 1]
    /\ resp' = MealEvent("next_day", None, None)
    /\ UNCHANGED <<db, locks>>

InitMeals ==
    /\ db = WithMealPlans(SeedScope)
    /\ resp = MealEvent("none", None, None)
    /\ procs = [now |-> 1]
    /\ locks = <<>>

NextMeals ==
    \/ MCreateMealPlan
    \/ MUpdateMealPlan
    \/ MGetClientActivePlan
    \/ MNextDay

SpecMeals == InitMeals /\ [][NextMeals]_vars

\* The active plans of a client on a day, as the stored values have them.
ActivePlansOf(d, client_id, now) ==
    {m \in DOMAIN d.meal_plans :
        /\ d.meal_plans[m].client_id = client_id
        /\ d.meal_plans[m].is_active
        /\ d.meal_plans[m].start_date # None
        /\ d.meal_plans[m].start_date <= now
        /\ \/ d.meal_plans[m].end_date = None
           \/ d.meal_plans[m].end_date >= now}

\* C21: get_client_active_plan(client_id) returns an active plan of that
\* client whose start_date <= now and whose end_date is null or >= now
\* whenever one exists, and returns nothing only when none exists.
C21_ActivePlan ==
    resp.op = "get_client_active_plan" =>
        IF ActivePlansOf(db, resp.client_id, procs.now) = {}
        THEN resp.plan = None
        ELSE resp.plan \in ActivePlansOf(db, resp.client_id, procs.now)

(***************************************************************************)
(* Trainer profiles (app/api/v1/endpoints/trainers.py).                    *)
(***************************************************************************)
MaxTrainers == 3

\* models/trainer.py Trainer, with one of the columns of TrainerUpdate.
TrainerProfile(user_id, specialization) ==
    [user_id |-> user_id, specialization |-> specialization]

\* TrainerService.create: INSERT and COMMIT.  trainers.user_id is unique,
\* so with a profile of the user stored already the INSERT raises
\* IntegrityError and the transaction is rolled back.
TrainerService_create(d, trainer_in, user_id) ==
    IF \E t \in DOMAIN d.trainers : d.trainers[t].user_id = user_id
    THEN [exc |-> "IntegrityError", db |-> d]
    ELSE [exc |-> "",
          db |-> [d EXCEPT !.trainers =
                    Insert(@, TrainerProfile(user_id,
                                             trainer_in.specialization))]]

\* create_trainer: no look-up of a profile of the caller; the exception of
\* the service is answered by its handler.
create_trainer(d, u, trainer_in) ==
    LET r == TrainerService_create(d, trainer_in, u)
    IN IF r.exc # ""
       THEN Answer(sqlalchemy_exception_handler(r.exc), r.db)
       ELSE Answer(OK, r.db)

\* TrainerService.update
TrainerService_update(d, id, obj_in) ==
    [d EXCEPT !.trainers[id].specialization = obj_in.specialization]

\* A row that references the deleted trainer keeps no reference: the ORM
\* sets trainer_id to NULL in every table related to Trainer by a backref
\* without cascade.
Untrain(t, trainer_id) ==
    [i \in DOMAIN t |->
        IF t[i].trainer_id = trainer_id THEN [t[i] EXCEPT !.trainer_id = None]
        ELSE t[i]]

\* TrainerService.remove
TrainerService_remove(d, id) ==
    [d EXCEPT !.trainers = Delete(@, id),
              !.clients = Untrain(@, id),
              !.programs = Untrain(@, id),
              !.progress = Untrain(@, id),
              !.workout_logs = Untrain(@, id),
              !.goals = Untrain(@, id),
              !.payments = Untrain(@, id),
              !.subscriptions = Untrain(@, id)]

\* update_trainer: the profile is looked up; the caller is not compared
\* with its user_id.
update_trainer(d, u, trainer_id, trainer_in) ==
    IF trainer_id \notin DOMAIN d.trainers THEN Answer(NotFound, d)
    ELSE Answer(OK, TrainerService_update(d, trainer_id, trainer_in))

\* delete_trainer: as update_trainer.
delete_trainer(d, u, trainer_id) ==
    IF trainer_id \notin DOMAIN d.trainers THEN Answer(NotFound, d)
    ELSE Answer(OK, TrainerService_remove(d, trainer_id))

(***************************************************************************)
(* SpecTrainers: the five accounts create, update and delete trainer       *)
(* profiles.  Users 1 and 2 start with a profile and a client each.        *)
(***************************************************************************)
TrainerRequest(op, caller, target, status) ==
    [op |-> op, caller |-> caller, target |-> target, status |-> status]

Specializations == {"strength", "yoga"}

ProfileCreate ==
    /\ NextId(db.trainers) <= MaxTrainers
    /\ \E u \in DOMAIN db.users, sp \in Specializations :
          LET r == create_trainer(db, u, [specialization |-> sp])
          IN /\ db' = r.db
             /\ resp' = TrainerRequest("create_trainer", u, None, r.status)
    /\ UNCHANGED <<procs, locks>>

ProfileUpdate ==
    /\ \E u \in DOMAIN db.users, t \in 1 .. MaxTrainers,
          sp \in Specializations :
          LET r == update_trainer(db, u, t, [specialization |-> sp])
          IN /\ db' = r.db
             /\ resp' = TrainerRequest("update_trainer", u, t, r.status)
    /\ UNCHANGED <<procs, locks>>

ProfileDelete ==
    /\ \E u \in DOMAIN db.users, t \in 1 .. MaxTrainers :
          LET r == delete_trainer(db, u, t)
          IN /\ db' = r.db
             /\ resp' = TrainerRequest("delete_trainer", u, t, r.status)
    /\ UNCHANGED <<procs, locks>>

InitTrainers ==
    /\ db = [SeedScope EXCEPT
               !.trainers = [t \in DOMAIN @ |->
                               TrainerProfile(@[t].user_id, "strength")]]
    /\ resp = TrainerRequest("none", None, None, None)
    /\ procs = <<>>
    /\ locks = <<>>

NextTrainers ==
    \/ ProfileCreate
    \/ ProfileUpdate
    \/ ProfileDelete

SpecTrainers == InitTrainers /\ [][NextTrainers]_vars

\* C22: each user account has at most one trainer profile, and
\* create_trainer by a user who already has one is rejected with 400 and
\* creates nothing.
C22_OneTrainerProfile ==
    [][/\ \A u \in DOMAIN db'.users : Cardinality(TrainerOf(db', u)) <= 1
       /\ (resp'.op = "create_trainer" /\ TrainerOf(db, resp'.caller) # {})
             => (resp'.status = BadRequest /\ db' = db)]_vars

\* C23: update_trainer and delete_trainer succeed only when the target
\* profile belongs to the caller; a caller who targets another user's
\* profile gets Forbidden and the profile is left unchanged.
C23_OwnTrainerProfileOnly ==
    [][(/\ resp'.op \in {"update_trainer", "delete_trainer"}
        /\ resp'.target \in DOMAIN db.trainers)
          => IF db.trainers[resp'.target].user_id = resp'.caller
             THEN TRUE
             ELSE /\ resp'.status = Forbidden
                  /\ resp'.target \in DOMAIN db'.trainers
                  /\ db'.trainers[resp'.target] = db.trainers[resp'.target]]_vars

(***************************************************************************)
(* Spec, again: what a client may write in their own profile.              *)
(***************************************************************************)
\* C24: update_client by a client caller on their own profile never
\* changes the client's is_active, trainer_id or user_id.
C24_ClientSelfServiceFields ==
    [][(/\ resp'.op = "update_client"
        /\ resp'.status = OK
        /\ ~db.users[resp'.caller].is_trainer)
          => /\ db'.clients[resp'.target].is_active =
                   db.clients[resp'.target].is_active
             /\ db'.clients[resp'.target].trainer_id =
                   db.clients[resp'.target].trainer_id
             /\ db'.clients[resp'.target].user_id =
                   db.clients[resp'.target].user_id]_vars

\* C25: create_client by a trainer-flagged user with a trainer profile
\* succeeds and stores a new client whose trainer_id is the caller's
\* trainer id; by a non-trainer it returns Forbidden and by a
\* trainer-flagged user without a profile NotFound, storing nothing.
C25_CreateClient ==
    [][resp'.op = "create_client" =>
          IF ~db.users[resp'.caller].is_trainer
          THEN resp'.status = Forbidden /\ db' = db
          ELSE IF TrainerIdOf(db, resp'.caller) = None
          THEN resp'.status = NotFound /\ db' = db
          ELSE /\ resp'.status = OK
               /\ \E c \in DOMAIN db'.clients \ DOMAIN db.clients :
                     /\ db'.clients[c].trainer_id = TrainerIdOf(db, resp'.caller)
                     /\ db' = [db EXCEPT !.clients = Insert(@, db'.clients[c])]]_vars

(***************************************************************************)
(* Reads of one record (programs.py, payments.py, progress.py).  The three *)
(* endpoints have the same body: the row is looked up, a trainer caller    *)
(* is compared with its trainer_id, and for any other caller               *)
(* current_user.client, the backref collection, is read: empty, it is      *)
(* falsy and the answer is 403; with the caller's client row in it,        *)
(* client.id raises AttributeError, answered by the general exception      *)
(* handler.                                                                *)
(***************************************************************************)
read_record(d, u, t, id) ==
    IF id \notin DOMAIN t THEN Answer(NotFound, d)
    ELSE IF d.users[u].is_trainer
         THEN IF t[id].trainer_id # TrainerIdOf(d, u)
              THEN Answer(Forbidden, d) ELSE Answer(OK, d)
         ELSE IF ClientsOf(d, u) = {} THEN Answer(Forbidden, d)
              ELSE Answer(InternalError, d)

read_program(d, u, program_id) == read_record(d, u, d.programs, program_id)

read_payment(d, u, payment_id) == read_record(d, u, d.payments, payment_id)

read_progress_entry(d, u, progress_id) == read_record(d, u, d.progress, progress_id)

(***************************************************************************)
(* SpecRead: the accounts of SpecScope store programs, progress entries    *)
(* and payments and read them one by one.                                  *)
(***************************************************************************)
ReadProgram ==
    \E u \in DOMAIN db.users, program_id \in ProgramIds :
        Request("read_program", u, program_id, read_program(db, u, program_id))

ReadPayment ==
    \E u \in DOMAIN db.users, payment_id \in ProgramIds :
        Request("read_payment", u, payment_id, read_payment(db, u, payment_id))

ReadProgressEntry ==
    \E u \in DOMAIN db.users, progress_id \in ProgramIds :
        Request("read_progress_entry", u, progress_id,
                read_progress_entry(db, u, progress_id))

NextRead ==
    \/ CreateProgram
    \/ CreateProgress
    \/ CreatePayment
    \/ ReadProgram
    \/ ReadPayment
    \/ ReadProgressEntry

SpecRead == InitScope /\ [][NextRead]_vars

\* The table an endpoint reads.
TableRead(d, op) ==
    IF op = "read_program" THEN d.programs
    ELSE IF op = "read_payment" THEN d.payments
    ELSE d.progress

\* C26: for a caller who is not a trainer and has a client profile,
\* read_program, read_payment and read_progress_entry succeed exactly when
\* the record's client_id is the caller's own client id, and return
\* Forbidden for every other existing record.
C26_ClientReadsOwnRecords ==
    [][(/\ resp'.op \in {"read_program", "read_payment", "read_progress_entry"}
        /\ ~db.users[resp'.caller].is_trainer
        /\ ClientsOf(db, resp'.caller) # {}
        /\ resp'.target \in DOMAIN TableRead(db, resp'.op))
          => IF TableRead(db, resp'.op)[resp'.target].client_id
                  \in ClientsOf(db, resp'.caller)
             THEN resp'.status = OK
             ELSE resp'.status = Forbidden]_vars

(***************************************************************************)
(* SpecPay, again: whose payment methods a request writes.                 *)
(***************************************************************************)
\* C27: set_default_payment_method requested by client X changes
\* is_default only on payment methods owned by X; when the target is a
\* method of another client Y, no method of Y becomes default and X's
\* existing default is not cleared.
C27_SetDefaultOwnMethodsOnly ==
    [][resp'.op = "set_default_for_client" =>
          /\ \A m \in DOMAIN db.payment_methods :
                db.payment_methods[m].client_id # resp'.caller
                   => db'.payment_methods[m] = db.payment_methods[m]
          /\ (/\ resp'.target \in DOMAIN db.payment_methods
              /\ db.payment_methods[resp'.target].client_id # resp'.caller)
                => db'.payment_methods = db.payment_methods]_vars

(***************************************************************************)
(* The Stripe webhook (app/api/v1/endpoints/payments.py).                  *)
(***************************************************************************)
\* The engines of app/core/database.py: SQLite when settings.USE_SQLITE,
\* which is the default, and otherwise the engine of DATABASE_URL.
Engines == {"sqlite", "postgresql"}

\* A Python str, as a value given for a column.
PyStr(s) == [type |-> "str", value |-> s]

\* The value bound for a DateTime column when the UPDATE is executed.
\* SQLite's DateTime type accepts datetime and date objects only and
\* raises TypeError for a str; PostgreSQL is sent the text, and reads
\* 'now' as the current time.
DateTime_bind(engine, value) ==
    engine = "postgresql" \/ value.type = "datetime"

\* PaymentService.update for a dictionary with paid_at: the fields are set
\* and the session committed.  A value that the engine does not bind fails
\* the flush with StatementError and the transaction is rolled back.
PaymentService_update_paid(d, engine, id, obj_in) ==
    IF ~DateTime_bind(engine, obj_in.paid_at)
    THEN [exc |-> "StatementError", db |-> d]
    ELSE [exc |-> "", db |-> PaymentService_update(d, id, obj_in)]

\* PaymentService.get_by_stripe_intent
PaymentService_get_by_stripe_intent(d, stripe_payment_intent_id) ==
    LET found == {p \in DOMAIN d.payments :
                    d.payments[p].stripe_payment_intent_id
                       = stripe_payment_intent_id}
    IN IF found = {} THEN None ELSE Min(found)

\* stripe_webhook: no signature is verified and no caller is asked for.
\* For payment_intent.succeeded with an id, the payment of the intent is
\* updated with {"status": "completed", "paid_at": "now"}, whatever its
\* status; every other event is answered and nothing is done.
stripe_webhook(d, engine, payload) ==
    IF payload.type = "payment_intent.succeeded" /\ payload.id # None
       /\ PaymentService_get_by_stripe_intent(d, payload.id) # None
    THEN LET r == PaymentService_update_paid(d, engine,
                     PaymentService_get_by_stripe_intent(d, payload.id),
                     [status |-> "completed", paid_at |-> PyStr("now")])
         IN IF r.exc # ""
            THEN Answer(sqlalchemy_exception_handler(r.exc), r.db)
            ELSE Answer(OK, r.db)
    ELSE Answer(OK, d)

(***************************************************************************)
(* SpecWebhook: payments are created, their status is updated, and         *)
(* webhook events arrive, on either engine.                                *)
(***************************************************************************)
StripeWebhook ==
    /\ \E type \in {"payment_intent.succeeded", "subscription.created"},
          id \in 0 .. (MaxPayments + 1) :
          LET a == stripe_webhook(db, procs.engine, [type |-> type, id |-> id])
          IN /\ db' = a.db
             /\ resp' = [op |-> "stripe_webhook", target |-> id,
                         before |-> type, given |-> "", status |-> a.status]
    /\ UNCHANGED <<procs, locks>>

InitWebhook ==
    /\ db = SeedScope
    /\ resp = StatusEvent("none", None, "", "")
    /\ procs \in {[engine |-> e] : e \in Engines}
    /\ locks = <<>>

NextWebhook ==
    \/ SCreatePayment
    \/ SUpdatePayment
    \/ StripeWebhook

SpecWebhook == InitWebhook /\ [][NextWebhook]_vars

\* C28: a payment_intent.succeeded webhook event never changes to
\* completed a payment whose status is refunded, failed or cancelled; it
\* sets completed only on a pending payment whose stored intent id equals
\* the event's id.
C28_WebhookCompletesPendingOnly ==
    [][resp'.op = "stripe_webhook" =>
          \A p \in DOMAIN db.payments :
             (db'.payments[p].status = "completed"
                 /\ db.payments[p].status # "completed")
               => /\ db.payments[p].status = "pending"
                  /\ db.payments[p].stripe_payment_intent_id = resp'.target]_vars

(***************************************************************************)
(* Goals, again: GoalService.update.                                       *)
(***************************************************************************)
\* GoalService.update: setattr of every field the body sets, then commit.
GoalService_update(d, id, obj_in) ==
    [d EXCEPT !.goals[id] =
        [f \in DOMAIN @ |-> IF f \in DOMAIN obj_in THEN obj_in[f] ELSE @[f]]]

\* GoalUpdate bodies: the fields that are set (exclude_unset).
GoalUpdates ==
    {[current_value |-> 2]}
      \cup {[is_achieved |-> b] : b \in BOOLEAN}
      \cup {[achieved_date |-> t] : t \in {None, 1}}
      \cup {[is_achieved |-> TRUE, achieved_date |-> 1]}

(***************************************************************************)
(* SpecGoalUpdate: goals are created, updated and marked achieved.         *)
(***************************************************************************)
GUpdateGoal ==
    /\ \E goal_id \in DOMAIN db.goals, goal_in \in GoalUpdates :
          /\ db' = GoalService_update(db, goal_id, goal_in)
          /\ resp' = GoalEvent("update_goal", goal_id,
                               db.goals[goal_id].is_achieved, TRUE, {})
    /\ UNCHANGED <<procs, locks>>

NextGoalUpdate ==
    \/ GCreateGoal
    \/ GUpdateGoal
    \/ GMarkGoalAchieved

SpecGoalUpdate == InitGoals /\ [][NextGoalUpdate]_vars

\* C29: after any sequence of goal create, update and mark_goal_achieved
\* operations, a goal has achieved_date set if and only if its
\* is_achieved is true.
C29_AchievedDateIffAchieved ==
    \A g \in DOMAIN db.goals :
        (db.goals[g].achieved_date # None) <=> db.goals[g].is_achieved

(***************************************************************************)
(* SpecProg, again: an exercise assigned to a program more than once.      *)
(***************************************************************************)
\* C30: after remove_exercise(program_id, exercise_id) returns true, the
\* program has no remaining assignment of that exercise, even when the
\* exercise had been added to the program more than once.
C30_NoAssignmentRemains ==
    [][(resp'.op = "remove_exercise" /\ resp'.success)
          => MatchingExercises(db', resp'.target, resp'.n) = {}]_vars

====
